---- MODULE Spec2Model ----
(***************************************************************************)
(* vice-file-transfers: the single-flight transfer coordinator.            *)
(*                                                                         *)
(* Three revisions of the program are modelled over the same state:        *)
(*   rev = "main"  src/main.go                                             *)
(*   rev = "rec"   src/unnamed/part_000 lines 1-449, the revision with     *)
(*                 HistoricalRecords and per-record mutexes                *)
(*   rev = "old"   src/unnamed/part_000 lines 451-659, the oldest          *)
(*                 revision: two flags, no records, no WaitGroups          *)
(* Every request handler and every background goroutine is a process with  *)
(* a program counter.  One action is one critical section of the code (a   *)
(* Lock ... Unlock region, or one atomic WaitGroup operation), or the      *)
(* start of the porklock subprocess, together with the statements before   *)
(* it that touch only what the goroutine owns.                             *)
(*                                                                         *)
(* In src/main.go a record is reachable only from the goroutine that       *)
(* mutates it until the deferred function appends a copy, so the Status    *)
(* assignment that ends the goroutine's body is taken together with the    *)
(* deferred critical section.  In the record-store revision the record is  *)
(* shared through the store, and every SetStatus and SetCompletionTime is  *)
(* an action of its own.                                                   *)
(*                                                                         *)
(* sync.WaitGroup is its counter: Add and Done change it, Wait returns in  *)
(* a state where it is zero.  The Printf of src/main.go line 203 (an       *)
(* unlocked read of downloadRunning that only reaches stdout) is left out. *)
(*                                                                         *)
(* SpecLock runs the record-store revision with every Lock() as a step of  *)
(* its own: a context first locks the mutex of its next critical section   *)
(* (when no other context has it locked) and then takes the step of that   *)
(* critical section, which ends with the Unlock().                         *)
(*                                                                         *)
(* SpecWait runs src/main.go with its WaitGroups at the level of their     *)
(* waiters (parked, released, woken), and SpecMainPoll runs src/main.go     *)
(* with callers of its two status handlers and the deferred function       *)
(* entered by a Lock() step.                                               *)
(***************************************************************************)
EXTENDS Naturals, Integers, Sequences, FiniteSets, TLC

\* Number of trigger requests (upload or download) in one run.
MaxReq == 2

Reqs == 1..MaxReq

\* ---- constants of the source -------------------------------------------
UploadKind == "upload"
DownloadKind == "download"
RequestedStatus == "requested"
DownloadingStatus == "downloading"
UploadingStatus == "uploading"
FailedStatus == "failed"
CompletedStatus == "completed"

\* time.Time: the zero value, and the value time.Now() returns.
ZeroTime == 0
Now == 1

\* uuid.Nil, the UUID of a request slot that has not arrived yet.
NilUUID == 0

\* nil, the *TransferRecord FindRecord returns when no record matches.  A
\* non-nil pointer is the index of the request that allocated the record.
NilPointer == 0

\* The query string of a trigger request, as far as the handler reads it:
\* the non-blocking key is absent, present with an empty value, or present
\* with a non-empty value.
Absent == "<absent>"
Queries == {Absent, "", "true"}

\* req.FormValue(nonBlockingKey): the first value of the key, "" when the
\* key is absent.
FormValue(query) == IF query = Absent THEN "" ELSE query

\* uuid.UUID.String(): the textual form of a UUID, the form a poll's {id}
\* path segment is compared with.
UUIDString(u) == <<"uuid", u>>

VARIABLES
    rev,              \* which revision of the program runs
    fileExists,       \* os.Stat(a.InputPathList) succeeds
    req,              \* per request: handler and goroutine position
    rec,              \* per request: the *TransferRecord it allocated
    uploadRunning,
    downloadRunning,
    uploadWait,       \* a.uploadWait, the WaitGroup counter
    downloadWait,     \* a.downloadWait
    uploadRecords,    \* main: []TransferRecord (copies); rec: records (pointers)
    downloadRecords,
    poll              \* the status poll in progress and the last response written

vars == <<rev, fileExists, req, rec, uploadRunning, downloadRunning,
          uploadWait, downloadWait, uploadRecords, downloadRecords, poll>>

\* A request slot that has not arrived.  held and gheld are the mutexes the
\* handler and the goroutine of the request have locked; they are empty
\* wherever a critical section is one step, and filled in by the Lock() steps
\* of the lock-level specification.
IdleReq == [op |-> "none", query |-> Absent, pc |-> "idle", shouldRun |-> FALSE,
            gpc |-> "none", resets |-> 0, held |-> {}, gheld |-> {}]

NilRecord == [UUID |-> NilUUID, StartTime |-> ZeroTime, CompletionTime |-> ZeroTime,
              Status |-> "", Kind |-> ""]

\* The id of a poll before any poll has been made.
NoId == <<>>

\* No poll in progress and no response written yet.  id is the {id} path
\* segment of the poll, found the pointer FindRecord returned, code and body
\* the response, held the mutexes the poll's handler has locked.
NoPoll == [pc |-> "idle", op |-> "none", id |-> NoId, found |-> NilPointer,
           code |-> 0, body |-> <<>>, held |-> {}]

\* NewDownloadRecord()
NewDownloadRecord(id) ==
    [UUID |-> id, StartTime |-> Now, CompletionTime |-> ZeroTime,
     Status |-> RequestedStatus, Kind |-> DownloadKind]

\* NewUploadRecord(): the Kind it fills in is DownloadKind.
NewUploadRecord(id) ==
    [UUID |-> id, StartTime |-> Now, CompletionTime |-> ZeroTime,
     Status |-> RequestedStatus, Kind |-> DownloadKind]

\* a.fileUseable(a.InputPathList)
fileUseable == fileExists

Init ==
    /\ rev \in {"main", "rec"}
    /\ fileExists \in BOOLEAN
    /\ req = [r \in Reqs |-> IdleReq]
    /\ rec = [r \in Reqs |-> NilRecord]
    /\ uploadRunning = FALSE
    /\ downloadRunning = FALSE
    /\ uploadWait = 0
    /\ downloadWait = 0
    /\ uploadRecords = <<>>
    /\ downloadRecords = <<>>
    /\ poll = NoPoll

\* Requests arrive in index order: slot r is taken when every lower slot is.
NextSlot(r) == req[r].pc = "idle" /\ \A q \in Reqs : q < r => req[q].pc # "idle"

\* uuid.New(): a UUID no earlier record carries.
NewUUID(r) == r

\* The input path list file is created or removed by the environment.  The
\* program reads the file system only in the download gate, so a change is
\* followed only while some request has its gate evaluation ahead of it.
FileChange ==
    /\ \E r \in Reqs : req[r].pc \in {"idle", "gate"}
    /\ fileExists' = ~fileExists
    /\ UNCHANGED <<poll, rev, req, rec, uploadRunning, downloadRunning, uploadWait,
                   downloadWait, uploadRecords, downloadRecords>>

\* ======================= src/main.go ====================================

\* A gate that does not look at the input path list file.
DownloadShouldRun_NoStat(running, useable) == ~running

\* shouldRun := !downloadRunning && a.fileUseable(a.InputPathList)
DownloadShouldRun(running, useable) == ~running /\ useable

\* A gate that lets every upload request through.
UploadShouldRun_Always(running) == TRUE

\* shouldRun := !uploadRunning
UploadShouldRun(running) == ~running

\* A block decision that forgets the job this request has just launched.
Block_RunningOnly(nonBlocking, running, shouldRun) == nonBlocking = "" /\ running

\* block := (nonBlocking == "" && (running || shouldRun))
Block(nonBlocking, running, shouldRun) == nonBlocking = "" /\ (running \/ shouldRun)

\* ---- DownloadFiles, the handler ----------------------------------------

\* A POST /download arrives: the record is allocated, the form value read and
\* the gate evaluated: Lock(); shouldRun := ...; Unlock().
M_DownloadFiles_Gate(r, q) ==
    /\ rev = "main"
    /\ NextSlot(r)
    /\ LET shouldRun == DownloadShouldRun(downloadRunning, fileUseable)
       IN req' = [req EXCEPT ![r] = [IdleReq EXCEPT !.op = "download", !.query = q,
                                        !.shouldRun = shouldRun,
                                        !.pc = IF shouldRun THEN "launch" ELSE "block"]]
    /\ rec' = [rec EXCEPT ![r] = NewDownloadRecord(NewUUID(r))]
    /\ UNCHANGED <<poll, rev, fileExists, uploadRunning, downloadRunning, uploadWait,
                   downloadWait, uploadRecords, downloadRecords>>

\* if shouldRun { a.downloadWait.Add(1); go func() {...}() }
M_DownloadFiles_Launch(r) ==
    /\ rev = "main"
    /\ req[r].op = "download" /\ req[r].pc = "launch"
    /\ downloadWait' = downloadWait + 1
    /\ req' = [req EXCEPT ![r].pc = "block", ![r].gpc = "start"]
    /\ UNCHANGED <<poll, rev, fileExists, rec, uploadRunning, downloadRunning, uploadWait,
                   uploadRecords, downloadRecords>>

\* Lock(); block := ...; Unlock(); a request that does not block returns.
M_DownloadFiles_Block(r) ==
    /\ rev = "main"
    /\ req[r].op = "download" /\ req[r].pc = "block"
    /\ LET block == Block(FormValue(req[r].query), downloadRunning, req[r].shouldRun)
       IN req' = [req EXCEPT ![r].pc = IF block THEN "wait" ELSE "returned"]
    /\ UNCHANGED <<poll, rev, fileExists, rec, uploadRunning, downloadRunning, uploadWait,
                   downloadWait, uploadRecords, downloadRecords>>

\* a.downloadWait.Wait() returns once the counter is zero.
M_DownloadFiles_Wait(r) ==
    /\ rev = "main"
    /\ req[r].op = "download" /\ req[r].pc = "wait"
    /\ downloadWait = 0
    /\ req' = [req EXCEPT ![r].pc = "returned"]
    /\ UNCHANGED <<poll, rev, fileExists, rec, uploadRunning, downloadRunning, uploadWait,
                   downloadWait, uploadRecords, downloadRecords>>

\* ---- DownloadFiles, the goroutine --------------------------------------

\* Lock(); downloadRunning = true; Status = DownloadingStatus; Unlock()
M_Download_Begin(r) ==
    /\ rev = "main"
    /\ req[r].op = "download" /\ req[r].gpc = "start"
    /\ downloadRunning' = TRUE
    /\ rec' = [rec EXCEPT ![r].Status = DownloadingStatus]
    /\ req' = [req EXCEPT ![r].gpc = "logs"]
    /\ UNCHANGED <<poll, rev, fileExists, uploadRunning, uploadWait, downloadWait,
                   uploadRecords, downloadRecords>>

\* The goroutine's body ends with the record's Status assigned (a write to
\* the goroutine's own record) and the deferred function runs up to Unlock():
\* the flag is reset, the completion time stamped and a copy of the record
\* appended.
M_Download_Finish(r, status) ==
    /\ downloadRunning' = FALSE
    /\ rec' = [rec EXCEPT ![r].Status = status, ![r].CompletionTime = Now]
    /\ downloadRecords' = Append(downloadRecords, rec'[r])
    /\ req' = [req EXCEPT ![r].gpc = "signal", ![r].resets = @ + 1]
    /\ UNCHANGED <<poll, rev, fileExists, uploadRunning, uploadWait, downloadWait,
                   uploadRecords>>

\* os.Create(downloadLogStdoutPath) fails.
M_Download_StdoutFail(r) ==
    /\ rev = "main"
    /\ req[r].op = "download" /\ req[r].gpc = "logs"
    /\ M_Download_Finish(r, FailedStatus)

\* os.Create(downloadLogStderrPath) fails.
M_Download_StderrFail(r) ==
    /\ rev = "main"
    /\ req[r].op = "download" /\ req[r].gpc = "logs"
    /\ M_Download_Finish(r, FailedStatus)

\* Both log files are created and cmd.Run() is entered.
M_Download_Run(r) ==
    /\ rev = "main"
    /\ req[r].op = "download" /\ req[r].gpc = "logs"
    /\ req' = [req EXCEPT ![r].gpc = "run"]
    /\ UNCHANGED <<poll, rev, fileExists, rec, uploadRunning, downloadRunning, uploadWait,
                   downloadWait, uploadRecords, downloadRecords>>

\* cmd.Run() returns an error: porklock did not start or exited nonzero.
M_Download_RunError(r) ==
    /\ rev = "main"
    /\ req[r].op = "download" /\ req[r].gpc = "run"
    /\ M_Download_Finish(r, FailedStatus)

\* cmd.Run() returns nil.
M_Download_RunOK(r) ==
    /\ rev = "main"
    /\ req[r].op = "download" /\ req[r].gpc = "run"
    /\ M_Download_Finish(r, CompletedStatus)

\* a.downloadWait.Done()
M_Download_Done(r) ==
    /\ rev = "main"
    /\ req[r].op = "download" /\ req[r].gpc = "signal"
    /\ downloadWait' = downloadWait - 1
    /\ req' = [req EXCEPT ![r].gpc = "done"]
    /\ UNCHANGED <<poll, rev, fileExists, rec, uploadRunning, downloadRunning, uploadWait,
                   uploadRecords, downloadRecords>>

\* ---- UploadFiles, the handler ------------------------------------------

\* A POST /upload arrives: the record is allocated, the form value read and
\* the gate taken: Lock(); shouldRun := !uploadRunning; uploadRunning = true;
\* Unlock().
M_UploadFiles_Gate(r, q) ==
    /\ rev = "main"
    /\ NextSlot(r)
    /\ LET shouldRun == UploadShouldRun(uploadRunning)
       IN req' = [req EXCEPT ![r] = [IdleReq EXCEPT !.op = "upload", !.query = q,
                                        !.shouldRun = shouldRun,
                                        !.pc = IF shouldRun THEN "launch" ELSE "block"]]
    /\ rec' = [rec EXCEPT ![r] = NewUploadRecord(NewUUID(r))]
    /\ uploadRunning' = TRUE
    /\ UNCHANGED <<poll, rev, fileExists, downloadRunning, uploadWait,
                   downloadWait, uploadRecords, downloadRecords>>

\* if shouldRun { a.uploadWait.Add(1); go func() {...}() }
M_UploadFiles_Launch(r) ==
    /\ rev = "main"
    /\ req[r].op = "upload" /\ req[r].pc = "launch"
    /\ uploadWait' = uploadWait + 1
    /\ req' = [req EXCEPT ![r].pc = "block", ![r].gpc = "logs"]
    /\ UNCHANGED <<poll, rev, fileExists, rec, uploadRunning, downloadRunning, downloadWait,
                   uploadRecords, downloadRecords>>

\* Lock(); block := ...; Unlock(); a request that does not block returns.
M_UploadFiles_Block(r) ==
    /\ rev = "main"
    /\ req[r].op = "upload" /\ req[r].pc = "block"
    /\ LET block == Block(FormValue(req[r].query), uploadRunning, req[r].shouldRun)
       IN req' = [req EXCEPT ![r].pc = IF block THEN "wait" ELSE "returned"]
    /\ UNCHANGED <<poll, rev, fileExists, rec, uploadRunning, downloadRunning, uploadWait,
                   downloadWait, uploadRecords, downloadRecords>>

\* a.uploadWait.Wait() returns once the counter is zero.
M_UploadFiles_Wait(r) ==
    /\ rev = "main"
    /\ req[r].op = "upload" /\ req[r].pc = "wait"
    /\ uploadWait = 0
    /\ req' = [req EXCEPT ![r].pc = "returned"]
    /\ UNCHANGED <<poll, rev, fileExists, rec, uploadRunning, downloadRunning, uploadWait,
                   downloadWait, uploadRecords, downloadRecords>>

\* ---- UploadFiles, the goroutine ----------------------------------------

\* A deferred function that leaves uploadRunning as it is.
M_Upload_Finish_NoReset(r, status) ==
    /\ rec' = [rec EXCEPT ![r].Status = status, ![r].CompletionTime = Now]
    /\ uploadRecords' = Append(uploadRecords, rec'[r])
    /\ req' = [req EXCEPT ![r].gpc = "signal", ![r].resets = @ + 1]
    /\ UNCHANGED <<poll, rev, fileExists, uploadRunning, downloadRunning, uploadWait,
                   downloadWait, downloadRecords>>

\* The goroutine's body ends with the record's Status assigned and the
\* deferred function runs up to Unlock().
M_Upload_Finish(r, status) ==
    /\ uploadRunning' = FALSE
    /\ rec' = [rec EXCEPT ![r].Status = status, ![r].CompletionTime = Now]
    /\ uploadRecords' = Append(uploadRecords, rec'[r])
    /\ req' = [req EXCEPT ![r].gpc = "signal", ![r].resets = @ + 1]
    /\ UNCHANGED <<poll, rev, fileExists, downloadRunning, uploadWait, downloadWait,
                   downloadRecords>>

\* os.Create(uploadLogStdoutPath) fails.
M_Upload_StdoutFail(r) ==
    /\ rev = "main"
    /\ req[r].op = "upload" /\ req[r].gpc = "logs"
    /\ M_Upload_Finish(r, FailedStatus)

\* os.Create(uploadLogStderrPath) fails.
M_Upload_StderrFail(r) ==
    /\ rev = "main"
    /\ req[r].op = "upload" /\ req[r].gpc = "logs"
    /\ M_Upload_Finish(r, FailedStatus)

\* Both log files are created and cmd.Run() is entered.
M_Upload_Run(r) ==
    /\ rev = "main"
    /\ req[r].op = "upload" /\ req[r].gpc = "logs"
    /\ req' = [req EXCEPT ![r].gpc = "run"]
    /\ UNCHANGED <<poll, rev, fileExists, rec, uploadRunning, downloadRunning, uploadWait,
                   downloadWait, uploadRecords, downloadRecords>>

\* cmd.Run() returns an error.
M_Upload_RunError(r) ==
    /\ rev = "main"
    /\ req[r].op = "upload" /\ req[r].gpc = "run"
    /\ M_Upload_Finish(r, FailedStatus)

\* cmd.Run() returns nil.
M_Upload_RunOK(r) ==
    /\ rev = "main"
    /\ req[r].op = "upload" /\ req[r].gpc = "run"
    /\ M_Upload_Finish(r, CompletedStatus)

\* a.uploadWait.Done()
M_Upload_Done(r) ==
    /\ rev = "main"
    /\ req[r].op = "upload" /\ req[r].gpc = "signal"
    /\ uploadWait' = uploadWait - 1
    /\ req' = [req EXCEPT ![r].gpc = "done"]
    /\ UNCHANGED <<poll, rev, fileExists, rec, uploadRunning, downloadRunning, downloadWait,
                   uploadRecords, downloadRecords>>

NextMain ==
    \E r \in Reqs :
        \/ \E q \in Queries : M_DownloadFiles_Gate(r, q)
        \/ M_DownloadFiles_Launch(r)
        \/ M_DownloadFiles_Block(r)
        \/ M_DownloadFiles_Wait(r)
        \/ M_Download_Begin(r)
        \/ M_Download_StdoutFail(r)
        \/ M_Download_StderrFail(r)
        \/ M_Download_Run(r)
        \/ M_Download_RunError(r)
        \/ M_Download_RunOK(r)
        \/ M_Download_Done(r)
        \/ \E q \in Queries : M_UploadFiles_Gate(r, q)
        \/ M_UploadFiles_Launch(r)
        \/ M_UploadFiles_Block(r)
        \/ M_UploadFiles_Wait(r)
        \/ M_Upload_StdoutFail(r)
        \/ M_Upload_StderrFail(r)
        \/ M_Upload_Run(r)
        \/ M_Upload_RunError(r)
        \/ M_Upload_RunOK(r)
        \/ M_Upload_Done(r)

\* ============ src/unnamed/part_000 lines 1-449: the record store =========

\* (r *TransferRecord) SetStatus(status): Lock(); r.Status = status; Unlock()
SetStatus(record, status) == [record EXCEPT !.Status = status]

\* (r *TransferRecord) SetCompletionTime(): Lock(); r.CompletionTime = time.Now(); Unlock()
SetCompletionTime(record) == [record EXCEPT !.CompletionTime = Now]

\* An Append that keeps only the newest record.
RecordsAppend_Overwrite(records, tr) == <<tr>>

\* (h *HistoricalRecords) Append(tr): Lock(); h.records = append(h.records, tr); Unlock()
RecordsAppend(records, tr) == Append(records, tr)

\* A lookup that searches the records of both stores.
FindRecord_AnyStore(records, id) ==
    LET hits == {r \in Reqs : req[r].pc # "idle" /\ UUIDString(rec[r].UUID) = id}
    IN IF hits = {} THEN NilPointer ELSE CHOOSE r \in hits : TRUE

\* (h *HistoricalRecords) FindRecord(id): the first record of the list whose
\* UUID.String() is id, nil when there is none.
FindRecord(records, id) ==
    LET hits == {i \in 1..Len(records) : UUIDString(rec[records[i]].UUID) = id}
    IN IF hits = {} THEN NilPointer
       ELSE records[CHOOSE i \in hits : \A j \in hits : i <= j]

\* ---- DownloadFiles, the handler ----------------------------------------

\* A POST /download arrives: NewDownloadRecord(); a.downloadRecords.Append(...)
\* The handlers of this revision read nothing of the request, so its query
\* is left as IdleReq has it: without the non-blocking key.
R_DownloadFiles_Entry(r) ==
    /\ rev = "rec"
    /\ NextSlot(r)
    /\ req' = [req EXCEPT ![r] = [IdleReq EXCEPT !.op = "download", !.pc = "gate"]]
    /\ rec' = [rec EXCEPT ![r] = NewDownloadRecord(NewUUID(r))]
    /\ downloadRecords' = RecordsAppend(downloadRecords, r)
    /\ UNCHANGED <<poll, rev, fileExists, uploadRunning, downloadRunning, uploadWait,
                   downloadWait, uploadRecords>>

\* Lock(); shouldRun := !downloadRunning && a.fileUseable(...); Unlock()
R_DownloadFiles_Gate(r) ==
    /\ rev = "rec"
    /\ req[r].op = "download" /\ req[r].pc = "gate"
    /\ LET shouldRun == DownloadShouldRun(downloadRunning, fileUseable)
       IN req' = [req EXCEPT ![r].shouldRun = shouldRun,
                             ![r].pc = IF shouldRun THEN "launch" ELSE "respond", ![r].held = {}]
    /\ UNCHANGED <<poll, rev, fileExists, rec, uploadRunning, downloadRunning, uploadWait,
                   downloadWait, uploadRecords, downloadRecords>>

\* if shouldRun { a.downloadWait.Add(1); go func() {...}() }
R_DownloadFiles_Launch(r) ==
    /\ rev = "rec"
    /\ req[r].op = "download" /\ req[r].pc = "launch"
    /\ downloadWait' = downloadWait + 1
    /\ req' = [req EXCEPT ![r].pc = "respond", ![r].gpc = "start"]
    /\ UNCHANGED <<poll, rev, fileExists, rec, uploadRunning, downloadRunning, uploadWait,
                   uploadRecords, downloadRecords>>

\* downloadRecord.MarshalAndWrite(writer); the handler returns.
R_DownloadFiles_Respond(r) ==
    /\ rev = "rec"
    /\ req[r].op = "download" /\ req[r].pc = "respond"
    /\ req' = [req EXCEPT ![r].pc = "returned", ![r].held = {}]
    /\ UNCHANGED <<poll, rev, fileExists, rec, uploadRunning, downloadRunning, uploadWait,
                   downloadWait, uploadRecords, downloadRecords>>

\* ---- DownloadFiles, the goroutine --------------------------------------

\* Lock(); downloadRunning = true; Unlock()
R_Download_Begin(r) ==
    /\ rev = "rec"
    /\ req[r].op = "download" /\ req[r].gpc = "start"
    /\ downloadRunning' = TRUE
    /\ req' = [req EXCEPT ![r].gpc = "status", ![r].gheld = {}]
    /\ UNCHANGED <<poll, rev, fileExists, rec, uploadRunning, uploadWait, downloadWait,
                   uploadRecords, downloadRecords>>

\* downloadRecord.SetStatus(DownloadingStatus)
R_Download_SetDownloading(r) ==
    /\ rev = "rec"
    /\ req[r].op = "download" /\ req[r].gpc = "status"
    /\ rec' = [rec EXCEPT ![r] = SetStatus(@, DownloadingStatus)]
    /\ req' = [req EXCEPT ![r].gpc = "logs", ![r].gheld = {}]
    /\ UNCHANGED <<poll, rev, fileExists, uploadRunning, downloadRunning, uploadWait,
                   downloadWait, uploadRecords, downloadRecords>>

\* os.Create(downloadLogStdoutPath) fails; SetStatus(FailedStatus)
R_Download_StdoutFail(r) ==
    /\ rev = "rec"
    /\ req[r].op = "download" /\ req[r].gpc = "logs"
    /\ rec' = [rec EXCEPT ![r] = SetStatus(@, FailedStatus)]
    /\ req' = [req EXCEPT ![r].gpc = "defer", ![r].gheld = {}]
    /\ UNCHANGED <<poll, rev, fileExists, uploadRunning, downloadRunning, uploadWait,
                   downloadWait, uploadRecords, downloadRecords>>

\* os.Create(downloadLogStderrPath) fails; SetStatus(FailedStatus)
R_Download_StderrFail(r) ==
    /\ rev = "rec"
    /\ req[r].op = "download" /\ req[r].gpc = "logs"
    /\ rec' = [rec EXCEPT ![r] = SetStatus(@, FailedStatus)]
    /\ req' = [req EXCEPT ![r].gpc = "defer", ![r].gheld = {}]
    /\ UNCHANGED <<poll, rev, fileExists, uploadRunning, downloadRunning, uploadWait,
                   downloadWait, uploadRecords, downloadRecords>>

\* Both log files are created and cmd.Run() is entered.
R_Download_Run(r) ==
    /\ rev = "rec"
    /\ req[r].op = "download" /\ req[r].gpc = "logs"
    /\ req' = [req EXCEPT ![r].gpc = "run"]
    /\ UNCHANGED <<poll, rev, fileExists, rec, uploadRunning, downloadRunning, uploadWait,
                   downloadWait, uploadRecords, downloadRecords>>

\* The error branch without its return: the goroutine falls through to the
\* code after cmd.Run().
R_Download_RunError_NoReturn(r) ==
    /\ rev = "rec"
    /\ req[r].op = "download" /\ req[r].gpc = "run"
    /\ rec[r].Status # FailedStatus
    /\ rec' = [rec EXCEPT ![r] = SetStatus(@, FailedStatus)]
    /\ UNCHANGED <<poll, rev, fileExists, req, uploadRunning, downloadRunning, uploadWait,
                   downloadWait, uploadRecords, downloadRecords>>

\* cmd.Run() returns an error; SetStatus(FailedStatus)
R_Download_RunError(r) ==
    /\ rev = "rec"
    /\ req[r].op = "download" /\ req[r].gpc = "run"
    /\ rec' = [rec EXCEPT ![r] = SetStatus(@, FailedStatus)]
    /\ req' = [req EXCEPT ![r].gpc = "defer", ![r].gheld = {}]
    /\ UNCHANGED <<poll, rev, fileExists, uploadRunning, downloadRunning, uploadWait,
                   downloadWait, uploadRecords, downloadRecords>>

\* cmd.Run() returns nil; SetStatus(CompletedStatus)
R_Download_RunOK(r) ==
    /\ rev = "rec"
    /\ req[r].op = "download" /\ req[r].gpc = "run"
    /\ rec' = [rec EXCEPT ![r] = SetStatus(@, CompletedStatus)]
    /\ req' = [req EXCEPT ![r].gpc = "defer", ![r].gheld = {}]
    /\ UNCHANGED <<poll, rev, fileExists, uploadRunning, downloadRunning, uploadWait,
                   downloadWait, uploadRecords, downloadRecords>>

\* A deferred function that resets the flag without stamping the record.
R_Download_SetCompletionTime_ResetFirst(r) ==
    /\ rev = "rec"
    /\ req[r].op = "download" /\ req[r].gpc = "defer"
    /\ downloadRunning' = FALSE
    /\ req' = [req EXCEPT ![r].gpc = "signal", ![r].resets = @ + 1, ![r].gheld = {}]
    /\ UNCHANGED <<poll, rev, fileExists, rec, uploadRunning, uploadWait, downloadWait,
                   uploadRecords, downloadRecords>>

\* deferred: downloadRecord.SetCompletionTime()
R_Download_SetCompletionTime(r) ==
    /\ rev = "rec"
    /\ req[r].op = "download" /\ req[r].gpc = "defer"
    /\ rec' = [rec EXCEPT ![r] = SetCompletionTime(@)]
    /\ req' = [req EXCEPT ![r].gpc = "release", ![r].gheld = {}]
    /\ UNCHANGED <<poll, rev, fileExists, uploadRunning, downloadRunning, uploadWait,
                   downloadWait, uploadRecords, downloadRecords>>

\* deferred: Lock(); downloadRunning = false; Unlock()
R_Download_Release(r) ==
    /\ rev = "rec"
    /\ req[r].op = "download" /\ req[r].gpc = "release"
    /\ downloadRunning' = FALSE
    /\ req' = [req EXCEPT ![r].gpc = "signal", ![r].resets = @ + 1, ![r].gheld = {}]
    /\ UNCHANGED <<poll, rev, fileExists, rec, uploadRunning, uploadWait, downloadWait,
                   uploadRecords, downloadRecords>>

\* deferred: a.downloadWait.Done()
R_Download_Done(r) ==
    /\ rev = "rec"
    /\ req[r].op = "download" /\ req[r].gpc = "signal"
    /\ downloadWait' = downloadWait - 1
    /\ req' = [req EXCEPT ![r].gpc = "done"]
    /\ UNCHANGED <<poll, rev, fileExists, rec, uploadRunning, downloadRunning, uploadWait,
                   uploadRecords, downloadRecords>>

\* ---- UploadFiles, the handler ------------------------------------------

\* A POST /upload arrives: NewUploadRecord(); a.uploadRecords.Append(...)
R_UploadFiles_Entry(r) ==
    /\ rev = "rec"
    /\ NextSlot(r)
    /\ req' = [req EXCEPT ![r] = [IdleReq EXCEPT !.op = "upload", !.pc = "gate"]]
    /\ rec' = [rec EXCEPT ![r] = NewUploadRecord(NewUUID(r))]
    /\ uploadRecords' = RecordsAppend(uploadRecords, r)
    /\ UNCHANGED <<poll, rev, fileExists, uploadRunning, downloadRunning, uploadWait,
                   downloadWait, downloadRecords>>

\* Lock(); shouldRun := !uploadRunning; uploadRunning = true; Unlock()
R_UploadFiles_Gate(r) ==
    /\ rev = "rec"
    /\ req[r].op = "upload" /\ req[r].pc = "gate"
    /\ LET shouldRun == UploadShouldRun(uploadRunning)
       IN req' = [req EXCEPT ![r].shouldRun = shouldRun,
                             ![r].pc = IF shouldRun THEN "launch" ELSE "respond", ![r].held = {}]
    /\ uploadRunning' = TRUE
    /\ UNCHANGED <<poll, rev, fileExists, rec, downloadRunning, uploadWait,
                   downloadWait, uploadRecords, downloadRecords>>

\* if shouldRun { a.uploadWait.Add(1); go func() {...}() }
R_UploadFiles_Launch(r) ==
    /\ rev = "rec"
    /\ req[r].op = "upload" /\ req[r].pc = "launch"
    /\ uploadWait' = uploadWait + 1
    /\ req' = [req EXCEPT ![r].pc = "respond", ![r].gpc = "logs"]
    /\ UNCHANGED <<poll, rev, fileExists, rec, uploadRunning, downloadRunning, downloadWait,
                   uploadRecords, downloadRecords>>

\* uploadRecord.MarshalAndWrite(writer); the handler returns.
R_UploadFiles_Respond(r) ==
    /\ rev = "rec"
    /\ req[r].op = "upload" /\ req[r].pc = "respond"
    /\ req' = [req EXCEPT ![r].pc = "returned", ![r].held = {}]
    /\ UNCHANGED <<poll, rev, fileExists, rec, uploadRunning, downloadRunning, uploadWait,
                   downloadWait, uploadRecords, downloadRecords>>

\* ---- UploadFiles, the goroutine ----------------------------------------

\* The failure branch returning without any deferred cleanup, as the oldest
\* revision's goroutine does.
R_Upload_StdoutFail_NoDefer(r) ==
    /\ rev = "rec"
    /\ req[r].op = "upload" /\ req[r].gpc = "logs"
    /\ rec' = [rec EXCEPT ![r] = SetStatus(@, FailedStatus)]
    /\ req' = [req EXCEPT ![r].gpc = "done"]
    /\ UNCHANGED <<poll, rev, fileExists, uploadRunning, downloadRunning, uploadWait,
                   downloadWait, uploadRecords, downloadRecords>>

\* os.Create(uploadLogStdoutPath) fails; SetStatus(FailedStatus)
R_Upload_StdoutFail(r) ==
    /\ rev = "rec"
    /\ req[r].op = "upload" /\ req[r].gpc = "logs"
    /\ rec' = [rec EXCEPT ![r] = SetStatus(@, FailedStatus)]
    /\ req' = [req EXCEPT ![r].gpc = "defer", ![r].gheld = {}]
    /\ UNCHANGED <<poll, rev, fileExists, uploadRunning, downloadRunning, uploadWait,
                   downloadWait, uploadRecords, downloadRecords>>

\* os.Create(uploadLogStderrPath) fails; SetStatus(FailedStatus)
R_Upload_StderrFail(r) ==
    /\ rev = "rec"
    /\ req[r].op = "upload" /\ req[r].gpc = "logs"
    /\ rec' = [rec EXCEPT ![r] = SetStatus(@, FailedStatus)]
    /\ req' = [req EXCEPT ![r].gpc = "defer", ![r].gheld = {}]
    /\ UNCHANGED <<poll, rev, fileExists, uploadRunning, downloadRunning, uploadWait,
                   downloadWait, uploadRecords, downloadRecords>>

\* Both log files are created and cmd.Run() is entered.
R_Upload_Run(r) ==
    /\ rev = "rec"
    /\ req[r].op = "upload" /\ req[r].gpc = "logs"
    /\ req' = [req EXCEPT ![r].gpc = "run"]
    /\ UNCHANGED <<poll, rev, fileExists, rec, uploadRunning, downloadRunning, uploadWait,
                   downloadWait, uploadRecords, downloadRecords>>

\* cmd.Run() returns an error; SetStatus(FailedStatus)
R_Upload_RunError(r) ==
    /\ rev = "rec"
    /\ req[r].op = "upload" /\ req[r].gpc = "run"
    /\ rec' = [rec EXCEPT ![r] = SetStatus(@, FailedStatus)]
    /\ req' = [req EXCEPT ![r].gpc = "defer", ![r].gheld = {}]
    /\ UNCHANGED <<poll, rev, fileExists, uploadRunning, downloadRunning, uploadWait,
                   downloadWait, uploadRecords, downloadRecords>>

\* The success path without its SetStatus(CompletedStatus).
R_Upload_RunOK_NoStatus(r) ==
    /\ rev = "rec"
    /\ req[r].op = "upload" /\ req[r].gpc = "run"
    /\ req' = [req EXCEPT ![r].gpc = "defer"]
    /\ UNCHANGED <<poll, rev, fileExists, rec, uploadRunning, downloadRunning, uploadWait,
                   downloadWait, uploadRecords, downloadRecords>>

\* cmd.Run() returns nil; SetStatus(CompletedStatus)
R_Upload_RunOK(r) ==
    /\ rev = "rec"
    /\ req[r].op = "upload" /\ req[r].gpc = "run"
    /\ rec' = [rec EXCEPT ![r] = SetStatus(@, CompletedStatus)]
    /\ req' = [req EXCEPT ![r].gpc = "defer", ![r].gheld = {}]
    /\ UNCHANGED <<poll, rev, fileExists, uploadRunning, downloadRunning, uploadWait,
                   downloadWait, uploadRecords, downloadRecords>>

\* A deferred function that stamps every record of the upload store.
R_Upload_SetCompletionTime_AllRecords(r) ==
    /\ rev = "rec"
    /\ req[r].op = "upload" /\ req[r].gpc = "defer"
    /\ rec' = [q \in Reqs |->
                  IF \E i \in 1..Len(uploadRecords) : uploadRecords[i] = q
                  THEN SetCompletionTime(rec[q]) ELSE rec[q]]
    /\ req' = [req EXCEPT ![r].gpc = "release", ![r].gheld = {}]
    /\ UNCHANGED <<poll, rev, fileExists, uploadRunning, downloadRunning, uploadWait,
                   downloadWait, uploadRecords, downloadRecords>>

\* deferred: uploadRecord.SetCompletionTime()
R_Upload_SetCompletionTime(r) ==
    /\ rev = "rec"
    /\ req[r].op = "upload" /\ req[r].gpc = "defer"
    /\ rec' = [rec EXCEPT ![r] = SetCompletionTime(@)]
    /\ req' = [req EXCEPT ![r].gpc = "release", ![r].gheld = {}]
    /\ UNCHANGED <<poll, rev, fileExists, uploadRunning, downloadRunning, uploadWait,
                   downloadWait, uploadRecords, downloadRecords>>

\* deferred: Lock(); uploadRunning = false; Unlock()
R_Upload_Release(r) ==
    /\ rev = "rec"
    /\ req[r].op = "upload" /\ req[r].gpc = "release"
    /\ uploadRunning' = FALSE
    /\ req' = [req EXCEPT ![r].gpc = "signal", ![r].resets = @ + 1, ![r].gheld = {}]
    /\ UNCHANGED <<poll, rev, fileExists, rec, downloadRunning, uploadWait, downloadWait,
                   uploadRecords, downloadRecords>>

\* deferred: a.uploadWait.Done()
R_Upload_Done(r) ==
    /\ rev = "rec"
    /\ req[r].op = "upload" /\ req[r].gpc = "signal"
    /\ uploadWait' = uploadWait - 1
    /\ req' = [req EXCEPT ![r].gpc = "done"]
    /\ UNCHANGED <<poll, rev, fileExists, rec, uploadRunning, downloadRunning, downloadWait,
                   uploadRecords, downloadRecords>>

NextRec ==
    \E r \in Reqs :
        \/ R_DownloadFiles_Entry(r)
        \/ R_DownloadFiles_Gate(r)
        \/ R_DownloadFiles_Launch(r)
        \/ R_DownloadFiles_Respond(r)
        \/ R_Download_Begin(r)
        \/ R_Download_SetDownloading(r)
        \/ R_Download_StdoutFail(r)
        \/ R_Download_StderrFail(r)
        \/ R_Download_Run(r)
        \/ R_Download_RunError(r)
        \/ R_Download_RunOK(r)
        \/ R_Download_SetCompletionTime(r)
        \/ R_Download_Release(r)
        \/ R_Download_Done(r)
        \/ R_UploadFiles_Entry(r)
        \/ R_UploadFiles_Gate(r)
        \/ R_UploadFiles_Launch(r)
        \/ R_UploadFiles_Respond(r)
        \/ R_Upload_StdoutFail(r)
        \/ R_Upload_StderrFail(r)
        \/ R_Upload_Run(r)
        \/ R_Upload_RunError(r)
        \/ R_Upload_RunOK(r)
        \/ R_Upload_SetCompletionTime(r)
        \/ R_Upload_Release(r)
        \/ R_Upload_Done(r)

\* ---- GetDownloadStatus, GetUploadStatus -------------------------------

\* http.StatusNotFound, and the status of a response written without
\* WriteHeader.
StatusNotFound == 404
StatusOK == 200

\* The {id} path segments polled: the id of every record that can exist and
\* one that no record carries.
PollIds == {UUIDString(u) : u \in 0..MaxReq}

\* json.Marshal(r) inside MarshalAndWrite: the exported fields under their
\* json names, read under the record's mutex.
Marshal(record) ==
    [uuid |-> UUIDString(record.UUID), start_time |-> record.StartTime,
     completion_time |-> record.CompletionTime, status |-> record.Status,
     kind |-> record.Kind]

\* foundRecord := a.downloadRecords.FindRecord(id); nil is answered 404.
R_GetDownloadStatus_Find(id) ==
    /\ rev = "rec"
    /\ poll.pc = "idle"
    /\ LET found == FindRecord(downloadRecords, id)
       IN poll' = IF found = NilPointer
                  THEN [NoPoll EXCEPT !.op = "download", !.id = id, !.code = StatusNotFound]
                  ELSE [NoPoll EXCEPT !.op = "download", !.id = id, !.pc = "marshal",
                                       !.found = found]
    /\ UNCHANGED <<rev, fileExists, req, rec, uploadRunning, downloadRunning, uploadWait,
                   downloadWait, uploadRecords, downloadRecords>>

\* foundRecord.MarshalAndWrite(writer)
R_GetDownloadStatus_Write ==
    /\ rev = "rec"
    /\ poll.pc = "marshal" /\ poll.op = "download"
    /\ poll' = [poll EXCEPT !.pc = "idle", !.code = StatusOK,
                            !.body = Marshal(rec[poll.found]), !.held = {}]
    /\ UNCHANGED <<rev, fileExists, req, rec, uploadRunning, downloadRunning, uploadWait,
                   downloadWait, uploadRecords, downloadRecords>>

\* foundRecord := a.uploadRecords.FindRecord(id); nil is answered 404.
R_GetUploadStatus_Find(id) ==
    /\ rev = "rec"
    /\ poll.pc = "idle"
    /\ LET found == FindRecord(uploadRecords, id)
       IN poll' = IF found = NilPointer
                  THEN [NoPoll EXCEPT !.op = "upload", !.id = id, !.code = StatusNotFound]
                  ELSE [NoPoll EXCEPT !.op = "upload", !.id = id, !.pc = "marshal",
                                       !.found = found]
    /\ UNCHANGED <<rev, fileExists, req, rec, uploadRunning, downloadRunning, uploadWait,
                   downloadWait, uploadRecords, downloadRecords>>

\* foundRecord.MarshalAndWrite(writer)
R_GetUploadStatus_Write ==
    /\ rev = "rec"
    /\ poll.pc = "marshal" /\ poll.op = "upload"
    /\ poll' = [poll EXCEPT !.pc = "idle", !.code = StatusOK,
                            !.body = Marshal(rec[poll.found]), !.held = {}]
    /\ UNCHANGED <<rev, fileExists, req, rec, uploadRunning, downloadRunning, uploadWait,
                   downloadWait, uploadRecords, downloadRecords>>

NextPoll ==
    \/ \E id \in PollIds : R_GetDownloadStatus_Find(id)
    \/ R_GetDownloadStatus_Write
    \/ \E id \in PollIds : R_GetUploadStatus_Find(id)
    \/ R_GetUploadStatus_Write

\* ============ src/unnamed/part_000 lines 451-659: the oldest revision ====
\* No records, no WaitGroups, no status routes: the handlers only take the
\* gate and start the goroutine, and the goroutine resets the flag at the end
\* of its body.

\* A POST /download arrives: Lock(); shouldRun := !downloadRunning &&
\* a.fileUseable(...); downloadRunning = true; Unlock().
O_DownloadFiles_Gate(r) ==
    /\ rev = "old"
    /\ NextSlot(r)
    /\ LET shouldRun == DownloadShouldRun(downloadRunning, fileUseable)
       IN req' = [req EXCEPT ![r] = [IdleReq EXCEPT !.op = "download",
                                        !.shouldRun = shouldRun,
                                        !.pc = IF shouldRun THEN "launch" ELSE "returned"]]
    /\ downloadRunning' = TRUE
    /\ UNCHANGED <<poll, rev, fileExists, rec, uploadRunning, uploadWait,
                   downloadWait, uploadRecords, downloadRecords>>

\* if shouldRun { go func() {...}() }; the handler returns.
O_DownloadFiles_Launch(r) ==
    /\ rev = "old"
    /\ req[r].op = "download" /\ req[r].pc = "launch"
    /\ req' = [req EXCEPT ![r].pc = "returned", ![r].gpc = "logs"]
    /\ UNCHANGED <<poll, rev, fileExists, rec, uploadRunning, downloadRunning, uploadWait,
                   downloadWait, uploadRecords, downloadRecords>>

\* os.Open(downloadLogStdoutPath) fails: return.
O_Download_StdoutFail(r) ==
    /\ rev = "old"
    /\ req[r].op = "download" /\ req[r].gpc = "logs"
    /\ req' = [req EXCEPT ![r].gpc = "done"]
    /\ UNCHANGED <<poll, rev, fileExists, rec, uploadRunning, downloadRunning, uploadWait,
                   downloadWait, uploadRecords, downloadRecords>>

\* os.Open(downloadLogStderrPath) fails: return.
O_Download_StderrFail(r) ==
    /\ rev = "old"
    /\ req[r].op = "download" /\ req[r].gpc = "logs"
    /\ req' = [req EXCEPT ![r].gpc = "done"]
    /\ UNCHANGED <<poll, rev, fileExists, rec, uploadRunning, downloadRunning, uploadWait,
                   downloadWait, uploadRecords, downloadRecords>>

\* Both log files are opened and cmd.Wait() is entered.
O_Download_Wait(r) ==
    /\ rev = "old"
    /\ req[r].op = "download" /\ req[r].gpc = "logs"
    /\ req' = [req EXCEPT ![r].gpc = "run"]
    /\ UNCHANGED <<poll, rev, fileExists, rec, uploadRunning, downloadRunning, uploadWait,
                   downloadWait, uploadRecords, downloadRecords>>

\* cmd.Wait() returns an error: return.
O_Download_WaitError(r) ==
    /\ rev = "old"
    /\ req[r].op = "download" /\ req[r].gpc = "run"
    /\ req' = [req EXCEPT ![r].gpc = "done"]
    /\ UNCHANGED <<poll, rev, fileExists, rec, uploadRunning, downloadRunning, uploadWait,
                   downloadWait, uploadRecords, downloadRecords>>

\* cmd.Wait() returns nil: Lock(); downloadRunning = false; Unlock().  (The
\* command is never started, and os/exec answers Wait() on such a command
\* with an error; the branch is kept as the code provides for it.)
O_Download_WaitOK(r) ==
    /\ rev = "old"
    /\ req[r].op = "download" /\ req[r].gpc = "run"
    /\ downloadRunning' = FALSE
    /\ req' = [req EXCEPT ![r].gpc = "done", ![r].resets = @ + 1]
    /\ UNCHANGED <<poll, rev, fileExists, rec, uploadRunning, uploadWait,
                   downloadWait, uploadRecords, downloadRecords>>

\* A POST /upload arrives: Lock(); shouldRun := !uploadRunning;
\* uploadRunning = true; Unlock().
O_UploadFiles_Gate(r) ==
    /\ rev = "old"
    /\ NextSlot(r)
    /\ LET shouldRun == UploadShouldRun(uploadRunning)
       IN req' = [req EXCEPT ![r] = [IdleReq EXCEPT !.op = "upload",
                                        !.shouldRun = shouldRun,
                                        !.pc = IF shouldRun THEN "launch" ELSE "returned"]]
    /\ uploadRunning' = TRUE
    /\ UNCHANGED <<poll, rev, fileExists, rec, downloadRunning, uploadWait,
                   downloadWait, uploadRecords, downloadRecords>>

\* if shouldRun { go func() {...}() }; the handler returns.
O_UploadFiles_Launch(r) ==
    /\ rev = "old"
    /\ req[r].op = "upload" /\ req[r].pc = "launch"
    /\ req' = [req EXCEPT ![r].pc = "returned", ![r].gpc = "logs"]
    /\ UNCHANGED <<poll, rev, fileExists, rec, uploadRunning, downloadRunning, uploadWait,
                   downloadWait, uploadRecords, downloadRecords>>

\* os.Open(uploadLogStdoutPath) fails: return.
O_Upload_StdoutFail(r) ==
    /\ rev = "old"
    /\ req[r].op = "upload" /\ req[r].gpc = "logs"
    /\ req' = [req EXCEPT ![r].gpc = "done"]
    /\ UNCHANGED <<poll, rev, fileExists, rec, uploadRunning, downloadRunning, uploadWait,
                   downloadWait, uploadRecords, downloadRecords>>

\* os.Open(uploadLogStderrPath) fails: return.
O_Upload_StderrFail(r) ==
    /\ rev = "old"
    /\ req[r].op = "upload" /\ req[r].gpc = "logs"
    /\ req' = [req EXCEPT ![r].gpc = "done"]
    /\ UNCHANGED <<poll, rev, fileExists, rec, uploadRunning, downloadRunning, uploadWait,
                   downloadWait, uploadRecords, downloadRecords>>

\* Both log files are opened and cmd.Wait() is entered.
O_Upload_Wait(r) ==
    /\ rev = "old"
    /\ req[r].op = "upload" /\ req[r].gpc = "logs"
    /\ req' = [req EXCEPT ![r].gpc = "run"]
    /\ UNCHANGED <<poll, rev, fileExists, rec, uploadRunning, downloadRunning, uploadWait,
                   downloadWait, uploadRecords, downloadRecords>>

\* cmd.Wait() returns an error: return.
O_Upload_WaitError(r) ==
    /\ rev = "old"
    /\ req[r].op = "upload" /\ req[r].gpc = "run"
    /\ req' = [req EXCEPT ![r].gpc = "done"]
    /\ UNCHANGED <<poll, rev, fileExists, rec, uploadRunning, downloadRunning, uploadWait,
                   downloadWait, uploadRecords, downloadRecords>>

\* cmd.Wait() returns nil: Lock(); uploadRunning = false; Unlock().
O_Upload_WaitOK(r) ==
    /\ rev = "old"
    /\ req[r].op = "upload" /\ req[r].gpc = "run"
    /\ uploadRunning' = FALSE
    /\ req' = [req EXCEPT ![r].gpc = "done", ![r].resets = @ + 1]
    /\ UNCHANGED <<poll, rev, fileExists, rec, downloadRunning, uploadWait,
                   downloadWait, uploadRecords, downloadRecords>>

NextOld ==
    \E r \in Reqs :
        \/ O_DownloadFiles_Gate(r)
        \/ O_DownloadFiles_Launch(r)
        \/ O_Download_StdoutFail(r)
        \/ O_Download_StderrFail(r)
        \/ O_Download_Wait(r)
        \/ O_Download_WaitError(r)
        \/ O_Download_WaitOK(r)
        \/ O_UploadFiles_Gate(r)
        \/ O_UploadFiles_Launch(r)
        \/ O_Upload_StdoutFail(r)
        \/ O_Upload_StderrFail(r)
        \/ O_Upload_Wait(r)
        \/ O_Upload_WaitError(r)
        \/ O_Upload_WaitOK(r)

\* ======================= specifications =================================

InitMain == Init /\ rev = "main"
InitRec == Init /\ rev = "rec"

\* Both revisions.
Next == FileChange \/ NextMain \/ NextRec
Spec == Init /\ [][Next]_vars

\* src/main.go alone.
NextM == FileChange \/ NextMain
SpecMain == InitMain /\ [][NextM]_vars

\* The oldest revision alone.
InitOld ==
    /\ rev = "old"
    /\ fileExists \in BOOLEAN
    /\ req = [r \in Reqs |-> IdleReq]
    /\ rec = [r \in Reqs |-> NilRecord]
    /\ uploadRunning = FALSE
    /\ downloadRunning = FALSE
    /\ uploadWait = 0
    /\ downloadWait = 0
    /\ uploadRecords = <<>>
    /\ downloadRecords = <<>>
    /\ poll = NoPoll
NextO == FileChange \/ NextOld
SpecOld == InitOld /\ [][NextO]_vars

\* The record-store revision alone.
NextR == FileChange \/ NextRec
SpecRec == InitRec /\ [][NextR]_vars

\* The record-store revision with a client polling job statuses.
NextRP == FileChange \/ NextRec \/ NextPoll
SpecPoll == InitRec /\ [][NextRP]_vars

\* ---- scheduling ---------------------------------------------------------

\* The steps of request r's handler after the request has been dispatched.
R_HandlerStep(r) ==
    \/ R_DownloadFiles_Gate(r)
    \/ R_DownloadFiles_Launch(r)
    \/ R_DownloadFiles_Respond(r)
    \/ R_UploadFiles_Gate(r)
    \/ R_UploadFiles_Launch(r)
    \/ R_UploadFiles_Respond(r)

\* The steps of the goroutine request r launched.  The subprocess is taken
\* to terminate: cmd.Run() returns.
R_RunnerStep(r) ==
    \/ R_Download_Begin(r)
    \/ R_Download_SetDownloading(r)
    \/ R_Download_StdoutFail(r)
    \/ R_Download_StderrFail(r)
    \/ R_Download_Run(r)
    \/ R_Download_RunError(r)
    \/ R_Download_RunOK(r)
    \/ R_Download_SetCompletionTime(r)
    \/ R_Download_Release(r)
    \/ R_Download_Done(r)
    \/ R_Upload_StdoutFail(r)
    \/ R_Upload_StderrFail(r)
    \/ R_Upload_Run(r)
    \/ R_Upload_RunError(r)
    \/ R_Upload_RunOK(r)
    \/ R_Upload_SetCompletionTime(r)
    \/ R_Upload_Release(r)
    \/ R_Upload_Done(r)

\* The Go scheduler runs every runnable goroutine eventually: a handler or a
\* job goroutine that can take a step takes it.  No request is required to
\* arrive and the file system is not required to change.
FairRec ==
    \A r \in Reqs : WF_vars(R_HandlerStep(r)) /\ WF_vars(R_RunnerStep(r))

\* The record-store revision with a polling client, its handlers and job
\* goroutines fairly scheduled.  Nothing is required of the client: it may
\* poll any id at any time, or never.
SpecPollFair == InitRec /\ [][NextRP]_vars /\ FairRec

\* ---- the mutexes ---------------------------------------------------------

\* downloadRunningMutex, uploadRunningMutex, the mutex of each
\* HistoricalRecords and the mutex of each TransferRecord.
DownloadRunningMutex == <<"downloadRunningMutex", 0>>
UploadRunningMutex == <<"uploadRunningMutex", 0>>
RunningMutex(op) == IF op = "upload" THEN UploadRunningMutex ELSE DownloadRunningMutex
StoreMutex(op) ==
    IF op = "upload" THEN <<"uploadRecords.mutex", 0>> ELSE <<"downloadRecords.mutex", 0>>
RecordMutex(r) == <<"TransferRecord.mutex", r>>

Mutexes ==
    {DownloadRunningMutex, UploadRunningMutex, StoreMutex("upload"), StoreMutex("download")}
    \cup {RecordMutex(r) : r \in Reqs}

\* A mutex that does not see the locks taken by goroutines.
Locked_HandlersOnly(m) ==
    \/ \E r \in Reqs : m \in req[r].held
    \/ m \in poll.held

\* sync.Mutex: some context has locked m and not yet unlocked it.
Locked(m) ==
    \/ \E r \in Reqs : m \in req[r].held \cup req[r].gheld
    \/ m \in poll.held

\* The mutexes the next statement of request r's handler may lock: Append's
\* store mutex when the request is dispatched, the running mutex at the gate,
\* the record's mutex in MarshalAndWrite.
HandlerLocks(r) ==
    CASE req[r].pc = "idle" ->
            IF NextSlot(r) THEN {StoreMutex("download"), StoreMutex("upload")} ELSE {}
      [] req[r].pc = "gate" -> {RunningMutex(req[r].op)}
      [] req[r].pc = "respond" -> {RecordMutex(r)}
      [] OTHER -> {}

\* The mutexes the next statement of request r's goroutine may lock:
\* downloadRunningMutex at its start, the record's mutex in SetStatus and
\* SetCompletionTime, the running mutex in the deferred reset.
RunnerLocks(r) ==
    CASE req[r].gpc = "start" -> {DownloadRunningMutex}
      [] req[r].gpc \in {"status", "logs", "run", "defer"} -> {RecordMutex(r)}
      [] req[r].gpc = "release" -> {RunningMutex(req[r].op)}
      [] OTHER -> {}

\* The mutexes the next statement of the poll's handler may lock: a store's
\* mutex in FindRecord, the found record's mutex in MarshalAndWrite.
PollerLocks ==
    IF poll.pc = "idle" THEN {StoreMutex("download"), StoreMutex("upload")}
    ELSE {RecordMutex(poll.found)}

\* m.Lock() in request r's handler: returns once m is unlocked.
L_HandlerLock(r, m) ==
    /\ rev = "rec"
    /\ req[r].held = {}
    /\ m \in HandlerLocks(r)
    /\ ~Locked(m)
    /\ req' = [req EXCEPT ![r].held = {m}]
    /\ UNCHANGED <<poll, rev, fileExists, rec, uploadRunning, downloadRunning, uploadWait,
                   downloadWait, uploadRecords, downloadRecords>>

\* m.Lock() in request r's goroutine.
L_RunnerLock(r, m) ==
    /\ rev = "rec"
    /\ req[r].gheld = {}
    /\ m \in RunnerLocks(r)
    /\ ~Locked(m)
    /\ req' = [req EXCEPT ![r].gheld = {m}]
    /\ UNCHANGED <<poll, rev, fileExists, rec, uploadRunning, downloadRunning, uploadWait,
                   downloadWait, uploadRecords, downloadRecords>>

\* A FindRecord that locks the record it is looking at while it still holds
\* the store's mutex.
L_PollerLock_Nested(m) ==
    /\ rev = "rec"
    /\ \/ poll.held = {} /\ m \in PollerLocks
       \/ /\ poll.pc = "idle" /\ poll.held # {}
          /\ m \in {RecordMutex(r) : r \in {q \in Reqs : req[q].pc # "idle"}}
    /\ ~Locked(m)
    /\ poll' = [poll EXCEPT !.held = @ \cup {m}]
    /\ UNCHANGED <<rev, fileExists, req, rec, uploadRunning, downloadRunning, uploadWait,
                   downloadWait, uploadRecords, downloadRecords>>

\* m.Lock() in the poll's handler.
L_PollerLock(m) ==
    /\ rev = "rec"
    /\ poll.held = {}
    /\ m \in PollerLocks
    /\ ~Locked(m)
    /\ poll' = [poll EXCEPT !.held = {m}]
    /\ UNCHANGED <<rev, fileExists, req, rec, uploadRunning, downloadRunning, uploadWait,
                   downloadWait, uploadRecords, downloadRecords>>

\* The statements of request r's handler, each critical section entered with
\* its mutex locked and left by its Unlock().
L_Handler(r) ==
    \/ req[r].held = {StoreMutex("download")} /\ R_DownloadFiles_Entry(r)
    \/ req[r].held = {DownloadRunningMutex} /\ R_DownloadFiles_Gate(r)
    \/ req[r].held = {} /\ R_DownloadFiles_Launch(r)
    \/ req[r].held = {RecordMutex(r)} /\ R_DownloadFiles_Respond(r)
    \/ req[r].held = {StoreMutex("upload")} /\ R_UploadFiles_Entry(r)
    \/ req[r].held = {UploadRunningMutex} /\ R_UploadFiles_Gate(r)
    \/ req[r].held = {} /\ R_UploadFiles_Launch(r)
    \/ req[r].held = {RecordMutex(r)} /\ R_UploadFiles_Respond(r)

\* The statements of request r's goroutine.
L_Runner(r) ==
    \/ req[r].gheld = {DownloadRunningMutex} /\ R_Download_Begin(r)
    \/ req[r].gheld = {RecordMutex(r)} /\ R_Download_SetDownloading(r)
    \/ req[r].gheld = {RecordMutex(r)} /\ R_Download_StdoutFail(r)
    \/ req[r].gheld = {RecordMutex(r)} /\ R_Download_StderrFail(r)
    \/ req[r].gheld = {} /\ R_Download_Run(r)
    \/ req[r].gheld = {RecordMutex(r)} /\ R_Download_RunError(r)
    \/ req[r].gheld = {RecordMutex(r)} /\ R_Download_RunOK(r)
    \/ req[r].gheld = {RecordMutex(r)} /\ R_Download_SetCompletionTime(r)
    \/ req[r].gheld = {DownloadRunningMutex} /\ R_Download_Release(r)
    \/ req[r].gheld = {} /\ R_Download_Done(r)
    \/ req[r].gheld = {RecordMutex(r)} /\ R_Upload_StdoutFail(r)
    \/ req[r].gheld = {RecordMutex(r)} /\ R_Upload_StderrFail(r)
    \/ req[r].gheld = {} /\ R_Upload_Run(r)
    \/ req[r].gheld = {RecordMutex(r)} /\ R_Upload_RunError(r)
    \/ req[r].gheld = {RecordMutex(r)} /\ R_Upload_RunOK(r)
    \/ req[r].gheld = {RecordMutex(r)} /\ R_Upload_SetCompletionTime(r)
    \/ req[r].gheld = {UploadRunningMutex} /\ R_Upload_Release(r)
    \/ req[r].gheld = {} /\ R_Upload_Done(r)

\* The statements of the poll's handler.
L_Poller ==
    \/ poll.held = {StoreMutex("download")} /\ \E id \in PollIds : R_GetDownloadStatus_Find(id)
    \/ poll.held = {RecordMutex(poll.found)} /\ R_GetDownloadStatus_Write
    \/ poll.held = {StoreMutex("upload")} /\ \E id \in PollIds : R_GetUploadStatus_Find(id)
    \/ poll.held = {RecordMutex(poll.found)} /\ R_GetUploadStatus_Write

\* The record-store revision with a polling client, every Lock() a step.
NextLock ==
    \/ FileChange
    \/ \E r \in Reqs, m \in Mutexes : L_HandlerLock(r, m)
    \/ \E r \in Reqs, m \in Mutexes : L_RunnerLock(r, m)
    \/ \E m \in Mutexes : L_PollerLock(m)
    \/ \E r \in Reqs : L_Handler(r)
    \/ \E r \in Reqs : L_Runner(r)
    \/ L_Poller

SpecLock == InitRec /\ [][NextLock]_vars

\* ---- src/main.go, the WaitGroups --------------------------------------------

\* a.uploadWait / a.downloadWait, by the kind of the request.
WaitOf(op) == IF op = "upload" THEN uploadWait ELSE downloadWait

\* sync.WaitGroup below the level of its counter.  Wait() returns at once
\* when the counter is zero and otherwise registers the caller as a waiter
\* and parks it; the Done() that takes the counter to zero releases every
\* registered waiter; a released waiter runs again when the scheduler picks
\* it, and its Wait() returns if the WaitGroup is still at zero and panics
\* ("sync: WaitGroup is reused before previous Wait has returned") if an
\* Add() has run in between.  The handlers call Add(1) with no ordering
\* against the Wait() calls of other requests (the running mutex is unlocked
\* before Add and before Wait), so every interleaving of them is possible.
\* A panic in a handler is recovered by net/http, which aborts the request's
\* connection; the process keeps serving.

\* a.downloadWait.Wait() / a.uploadWait.Wait() is called.
M_Wait_Enter(r) ==
    /\ rev = "main"
    /\ req[r].pc = "wait"
    /\ req' = [req EXCEPT ![r].pc = IF WaitOf(req[r].op) = 0 THEN "returned" ELSE "parked"]
    /\ UNCHANGED <<poll, rev, fileExists, rec, uploadRunning, downloadRunning, uploadWait,
                   downloadWait, uploadRecords, downloadRecords>>

\* The requests of one kind after a Done() that left the counter at n: at
\* zero every parked waiter is released.
AfterDone(op, n, r) ==
    [q \in Reqs |->
        [req[q] EXCEPT
            !.gpc = IF q = r THEN "done" ELSE @,
            !.pc = IF n = 0 /\ req[q].op = op /\ @ = "parked" THEN "released" ELSE @]]

\* a.downloadWait.Done() in the deferred function.
M_Download_DoneRelease(r) ==
    /\ rev = "main"
    /\ req[r].op = "download" /\ req[r].gpc = "signal"
    /\ downloadWait' = downloadWait - 1
    /\ req' = AfterDone("download", downloadWait', r)
    /\ UNCHANGED <<poll, rev, fileExists, rec, uploadRunning, downloadRunning, uploadWait,
                   uploadRecords, downloadRecords>>

\* a.uploadWait.Done() in the deferred function.
M_Upload_DoneRelease(r) ==
    /\ rev = "main"
    /\ req[r].op = "upload" /\ req[r].gpc = "signal"
    /\ uploadWait' = uploadWait - 1
    /\ req' = AfterDone("upload", uploadWait', r)
    /\ UNCHANGED <<poll, rev, fileExists, rec, uploadRunning, downloadRunning, downloadWait,
                   uploadRecords, downloadRecords>>

\* A released waiter runs again and finds the WaitGroup at zero: Wait()
\* returns and so does the handler.
M_Wait_Return(r) ==
    /\ rev = "main"
    /\ req[r].pc = "released"
    /\ WaitOf(req[r].op) = 0
    /\ req' = [req EXCEPT ![r].pc = "returned"]
    /\ UNCHANGED <<poll, rev, fileExists, rec, uploadRunning, downloadRunning, uploadWait,
                   downloadWait, uploadRecords, downloadRecords>>

\* A released waiter runs again after another request's Add(1): Wait()
\* panics and the handler is unwound instead of returning.
M_Wait_Panic(r) ==
    /\ rev = "main"
    /\ req[r].pc = "released"
    /\ WaitOf(req[r].op) # 0
    /\ req' = [req EXCEPT ![r].pc = "panicked"]
    /\ UNCHANGED <<poll, rev, fileExists, rec, uploadRunning, downloadRunning, uploadWait,
                   downloadWait, uploadRecords, downloadRecords>>

\* The steps of request r's handler in src/main.go after its gate.
M_HandlerStep(r) ==
    \/ M_DownloadFiles_Launch(r)
    \/ M_DownloadFiles_Block(r)
    \/ M_UploadFiles_Launch(r)
    \/ M_UploadFiles_Block(r)
    \/ M_Wait_Enter(r)
    \/ M_Wait_Return(r)
    \/ M_Wait_Panic(r)

\* The steps of the goroutine request r launched in src/main.go.  The
\* subprocess is taken to terminate: cmd.Run() returns.
M_RunnerStep(r) ==
    \/ M_Download_Begin(r)
    \/ M_Download_StdoutFail(r)
    \/ M_Download_StderrFail(r)
    \/ M_Download_Run(r)
    \/ M_Download_RunError(r)
    \/ M_Download_RunOK(r)
    \/ M_Download_DoneRelease(r)
    \/ M_Upload_StdoutFail(r)
    \/ M_Upload_StderrFail(r)
    \/ M_Upload_Run(r)
    \/ M_Upload_RunError(r)
    \/ M_Upload_RunOK(r)
    \/ M_Upload_DoneRelease(r)

\* src/main.go with its WaitGroups at the level of their waiters.
NextWait ==
    \/ FileChange
    \/ \E r \in Reqs, q \in Queries : M_DownloadFiles_Gate(r, q)
    \/ \E r \in Reqs, q \in Queries : M_UploadFiles_Gate(r, q)
    \/ \E r \in Reqs : M_HandlerStep(r)
    \/ \E r \in Reqs : M_RunnerStep(r)

\* Every runnable handler and job goroutine is scheduled eventually; no
\* request is required to arrive.
FairMain ==
    \A r \in Reqs : WF_vars(M_HandlerStep(r)) /\ WF_vars(M_RunnerStep(r))

SpecWait == InitMain /\ [][NextWait]_vars /\ FairMain

\* ---- src/main.go, the status handlers ---------------------------------------

\* GetDownloadStatus and GetUploadStatus of src/main.go.  main() registers no
\* route for them (lines 397-401 route only POST /download and POST /upload),
\* so they run only when something calls the exported methods; the actions
\* below are such calls, made while the trigger handlers serve requests.
\* Neither handler locks anything.  The goroutine's path to the store is
\* taken apart here: the body returns with the Status assigned, the deferred
\* function locks the running mutex, and its critical section resets the
\* flag, stamps the completion time, appends the copy and unlocks.

\* The goroutine's body returns: a log file could not be created (Failed),
\* or cmd.Run() returned an error (Failed) or nil (Completed).
M_Runner_Return(r, status) ==
    /\ rev = "main"
    /\ \/ req[r].gpc = "logs" /\ status = FailedStatus
       \/ req[r].gpc = "run" /\ status \in {FailedStatus, CompletedStatus}
    /\ rec' = [rec EXCEPT ![r].Status = status]
    /\ req' = [req EXCEPT ![r].gpc = "defer"]
    /\ UNCHANGED <<poll, rev, fileExists, uploadRunning, downloadRunning, uploadWait,
                   downloadWait, uploadRecords, downloadRecords>>

\* downloadRunningMutex.Lock() / uploadRunningMutex.Lock() in the deferred
\* function.
M_Runner_DeferLock(r) ==
    /\ rev = "main"
    /\ req[r].gpc = "defer"
    /\ ~Locked(RunningMutex(req[r].op))
    /\ req' = [req EXCEPT ![r].gpc = "cleanup", ![r].gheld = {RunningMutex(req[r].op)}]
    /\ UNCHANGED <<poll, rev, fileExists, rec, uploadRunning, downloadRunning, uploadWait,
                   downloadWait, uploadRecords, downloadRecords>>

\* The record as the deferred function appends it.
Stamped(r) == [rec[r] EXCEPT !.CompletionTime = Now]

\* The deferred function's critical section up to Unlock().
M_Runner_Cleanup(r) ==
    /\ rev = "main"
    /\ req[r].gpc = "cleanup"
    /\ rec' = [rec EXCEPT ![r] = Stamped(r)]
    /\ IF req[r].op = "download"
       THEN /\ downloadRunning' = FALSE
            /\ downloadRecords' = Append(downloadRecords, Stamped(r))
            /\ UNCHANGED <<uploadRunning, uploadRecords>>
       ELSE /\ uploadRunning' = FALSE
            /\ uploadRecords' = Append(uploadRecords, Stamped(r))
            /\ UNCHANGED <<downloadRunning, downloadRecords>>
    /\ req' = [req EXCEPT ![r].gpc = "signal", ![r].resets = @ + 1, ![r].gheld = {}]
    /\ UNCHANGED <<poll, rev, fileExists, uploadWait, downloadWait>>

\* A goroutine of the kind is inside the critical section of its deferred
\* function: the append to the kind's slice is in progress.
Appending(op) == \E r \in Reqs : req[r].op = op /\ req[r].gpc = "cleanup"

\* The element of a slice as a reader can find it while append is copying
\* the record into it, front to back: the first n fields are copied and the
\* rest are still zero.
TornCopies(record) ==
    {[UUID |-> IF n >= 1 THEN record.UUID ELSE NilUUID,
      StartTime |-> IF n >= 2 THEN record.StartTime ELSE ZeroTime,
      CompletionTime |-> IF n >= 3 THEN record.CompletionTime ELSE ZeroTime,
      Status |-> IF n >= 4 THEN record.Status ELSE "",
      Kind |-> IF n >= 5 THEN record.Kind ELSE ""] : n \in 0..5}

\* What `range a.downloadRecords` can evaluate to.  The slice header is read
\* without a lock: while no append is in progress it is the slice; a read
\* that races with the append of a goroutine in its deferred function finds
\* the slice as it was, or the longer slice with whatever the new element
\* holds at that moment.
SliceViews(op, records) ==
    {records} \cup
    UNION {{Append(records, t) : t \in TornCopies(Stamped(r))} :
              r \in {q \in Reqs : req[q].op = op /\ req[q].gpc = "cleanup"}}

\* The loop of the handler over one view: foundRecord is the copy of the last
\* element whose UUID.String() is id; Len(view) + 1 stands for nil.
LastMatch(view, id) ==
    LET hits == {i \in 1..Len(view) : UUIDString(view[i].UUID) = id}
    IN IF hits = {} THEN 0 ELSE CHOOSE i \in hits : \A j \in hits : j <= i

\* The poll after the loop over view: 404 when nothing matched, otherwise
\* json.Marshal of the copy is next.
Scanned(op, id, view) ==
    IF LastMatch(view, id) = 0
    THEN [NoPoll EXCEPT !.op = op, !.id = id, !.code = StatusNotFound]
    ELSE [NoPoll EXCEPT !.op = op, !.id = id, !.pc = "marshal",
                         !.found = view[LastMatch(view, id)]]

\* GetDownloadStatus: for _, dr := range a.downloadRecords { ... }
M_GetDownloadStatus_Scan(id) ==
    /\ rev = "main"
    /\ poll.pc = "idle"
    /\ \E view \in SliceViews("download", downloadRecords) :
          poll' = Scanned("download", id, view)
    /\ UNCHANGED <<rev, fileExists, req, rec, uploadRunning, downloadRunning, uploadWait,
                   downloadWait, uploadRecords, downloadRecords>>

\* GetUploadStatus: for _, dr := range a.uploadRecords { ... }
M_GetUploadStatus_Scan(id) ==
    /\ rev = "main"
    /\ poll.pc = "idle"
    /\ \E view \in SliceViews("upload", uploadRecords) :
          poll' = Scanned("upload", id, view)
    /\ UNCHANGED <<rev, fileExists, req, rec, uploadRunning, downloadRunning, uploadWait,
                   downloadWait, uploadRecords, downloadRecords>>

\* buf, err = json.Marshal(foundRecord); writer.Write(buf)
M_GetStatus_Write ==
    /\ rev = "main"
    /\ poll.pc = "marshal"
    /\ poll' = [poll EXCEPT !.pc = "idle", !.code = StatusOK, !.body = Marshal(poll.found)]
    /\ UNCHANGED <<rev, fileExists, req, rec, uploadRunning, downloadRunning, uploadWait,
                   downloadWait, uploadRecords, downloadRecords>>

\* src/main.go with callers of its status handlers.  The critical sections
\* of the trigger handlers and of the download goroutine's first statements
\* are entered only while their mutex is unlocked.
NextMainPoll ==
    \/ FileChange
    \/ \E r \in Reqs :
        \/ \E q \in Queries : ~Locked(DownloadRunningMutex) /\ M_DownloadFiles_Gate(r, q)
        \/ M_DownloadFiles_Launch(r)
        \/ ~Locked(DownloadRunningMutex) /\ M_DownloadFiles_Block(r)
        \/ M_DownloadFiles_Wait(r)
        \/ ~Locked(DownloadRunningMutex) /\ M_Download_Begin(r)
        \/ M_Download_Run(r)
        \/ M_Download_Done(r)
        \/ \E q \in Queries : ~Locked(UploadRunningMutex) /\ M_UploadFiles_Gate(r, q)
        \/ M_UploadFiles_Launch(r)
        \/ ~Locked(UploadRunningMutex) /\ M_UploadFiles_Block(r)
        \/ M_UploadFiles_Wait(r)
        \/ M_Upload_Run(r)
        \/ M_Upload_Done(r)
        \/ \E status \in {FailedStatus, CompletedStatus} : M_Runner_Return(r, status)
        \/ M_Runner_DeferLock(r)
        \/ M_Runner_Cleanup(r)
    \/ \E id \in PollIds : M_GetDownloadStatus_Scan(id)
    \/ \E id \in PollIds : M_GetUploadStatus_Scan(id)
    \/ M_GetStatus_Write

SpecMainPoll == InitMain /\ [][NextMainPoll]_vars

\* ======================= the claims =====================================

Terminal(status) == status \in {CompletedStatus, FailedStatus}

Arrived(r) == req[r].pc # "idle"

\* The background goroutine of request r exists: it was launched by the go
\* statement and its deferred function has not finished.
RunnerLive(r) == req[r].gpc \notin {"none", "done"}

\* Request r took the gate and its job has not reset the running flag yet.
HoldsGate(r) == req[r].shouldRun /\ req[r].gpc \notin {"signal", "done"}

Downloads == {r \in Reqs : req[r].op = "download"}
Uploads == {r \in Reqs : req[r].op = "upload"}

\* C1: at most one download Runner (goroutine between its launch and the end
\* of its deferred cleanup) exists at any instant, in both revisions.
C1_DownloadSingleFlight ==
    Cardinality({r \in Downloads : RunnerLive(r)}) <= 1

\* C2 as stated: at most one upload Runner between its launch and the END of
\* its deferred cleanup exists at any instant, and every upload goroutine
\* (hence every subprocess invocation) belongs to a request that observed
\* shouldRun = true.
C2_UploadOneRunnerToEndOfCleanup ==
    /\ Cardinality({r \in Uploads : RunnerLive(r)}) <= 1
    /\ \A r \in Uploads : req[r].gpc # "none" => req[r].shouldRun

\* C2 amended: at most one upload request is between taking the gate and its
\* job's reset of uploadRunning, so at most one upload subprocess runs at any
\* instant; every upload goroutine belongs to a request that observed
\* shouldRun = true.  (A finished runner that has reset the flag and not yet
\* called uploadWait.Done() may coexist with the next runner.)
C2_UploadSingleFlight ==
    /\ Cardinality({r \in Uploads : HoldsGate(r)}) <= 1
    /\ Cardinality({r \in Uploads : req[r].gpc = "run"}) <= 1
    /\ \A r \in Uploads : req[r].gpc # "none" => req[r].shouldRun

\* Two upload jobs were launched one after the other: the first has reset the
\* flag and has not yet called Done(), the second runs its subprocess.
C2_Witness ==
    \E a, b \in Uploads :
        /\ a # b
        /\ req[a].gpc = "signal"
        /\ req[b].gpc = "run"

StoreOf(op) == IF op = "upload" THEN uploadRecords ELSE downloadRecords

Occurrences(records, x) == Cardinality({i \in 1..Len(records) : records[i] = x})

IsPrefix(a, b) == Len(a) <= Len(b) /\ \A i \in 1..Len(a) : b[i] = a[i]

\* Every arrived request's record is in its kind's store exactly once and in
\* no other store; FindRecord on a returned request's id yields its record;
\* ids are unique within a store.
C3_Stored ==
    rev = "rec" =>
        /\ \A r \in Reqs : Arrived(r) =>
              /\ Occurrences(StoreOf(req[r].op), r) = 1
              /\ Occurrences(uploadRecords, r) + Occurrences(downloadRecords, r) = 1
              /\ req[r].pc = "returned" =>
                    FindRecord(StoreOf(req[r].op), UUIDString(rec[r].UUID)) = r
        /\ \A op \in {"upload", "download"} :
              \A i, j \in 1..Len(StoreOf(op)) :
                  rec[StoreOf(op)[i]].UUID = rec[StoreOf(op)[j]].UUID => i = j

\* A step keeps every stored record in its place and every record's id.
C3_NeverRemoved ==
    rev = "rec" =>
        /\ IsPrefix(uploadRecords, uploadRecords')
        /\ IsPrefix(downloadRecords, downloadRecords')
        /\ \A r \in Reqs : Arrived(r) => rec'[r].UUID = rec[r].UUID

\* C3: in the record-store revision every trigger request adds exactly one
\* record with a fresh id to its kind's store before the handler returns;
\* once the handler has returned FindRecord on that id yields that record in
\* every later state; no two records of a store share an id; records are
\* never removed or replaced.
C3_RecordPerRequest == []C3_Stored /\ [][C3_NeverRemoved]_vars

\* Two requests of one kind have returned and both are in that kind's store.
C3_Witness ==
    /\ rev = "rec"
    /\ \E a, b \in Reqs :
          /\ a # b
          /\ req[a].op = req[b].op
          /\ req[a].pc = "returned" /\ req[b].pc = "returned"
          /\ Len(StoreOf(req[a].op)) = 2

\* The status changes the lifecycle requested -> running -> terminal allows.
StatusSteps ==
    ({RequestedStatus} \X {DownloadingStatus, UploadingStatus, CompletedStatus, FailedStatus})
    \cup ({DownloadingStatus, UploadingStatus} \X {CompletedStatus, FailedStatus})

\* C4: in the record-store revision every change of a record's status is a
\* step forward along requested -> running -> (completed | failed): never
\* back to requested, never out of completed or failed.
C4_StatusOrder ==
    [][rev = "rec" =>
         \A r \in Reqs :
             (Arrived(r) /\ rec'[r].Status # rec[r].Status) =>
                 <<rec[r].Status, rec'[r].Status>> \in StatusSteps]_vars

\* A download record went requested -> downloading -> failed, and an upload
\* record requested -> completed.
C4_Witness ==
    /\ rev = "rec"
    /\ \E a \in Downloads, b \in Uploads :
          /\ rec[a].Status = FailedStatus /\ req[a].gpc = "done"
          /\ rec[b].Status = CompletedStatus /\ req[b].gpc = "done"



\* C5: in the record-store revision no status poll observes a record whose
\* completionTime is set while its status is not terminal, or whose status
\* is terminal while its completionTime is unset.
C5_PollSeesCompletionIffTerminal ==
    (rev = "rec" /\ poll.pc = "idle" /\ poll.code = StatusOK) =>
        (poll.body.completion_time # ZeroTime <=> Terminal(poll.body.status))

\* The download flag is set only between a download goroutine's first
\* critical section and its deferred reset.
HoldsDownloadFlag(r) ==
    IF rev = "main" THEN req[r].gpc \in {"logs", "run"}
    ELSE req[r].gpc \in {"status", "logs", "run", "defer", "release"}

\* C6: in the record-store revision a job that failed (log file creation or
\* cmd.Run()) and has finished left its record failed with completionTime
\* set and reset the running flag exactly once; a running flag is true only
\* while some job that will reset it is in flight, so once no such job is
\* left the next request's gate evaluation yields shouldRun = true (for
\* downloads: provided the input path list file is usable).
C6_FailureReleasesGate ==
    rev = "rec" =>
        /\ \A r \in Reqs :
              /\ req[r].resets <= 1
              /\ (req[r].gpc = "done" /\ rec[r].Status = FailedStatus) =>
                    /\ rec[r].CompletionTime # ZeroTime
                    /\ req[r].resets = 1
              /\ (req[r].gpc = "done") => Terminal(rec[r].Status)
        /\ uploadRunning => \E r \in Uploads : HoldsGate(r)
        /\ downloadRunning => \E r \in Downloads : HoldsDownloadFlag(r)
        /\ (\A r \in Uploads : ~HoldsGate(r))
              => UploadShouldRun(uploadRunning)
        /\ ((\A r \in Downloads : ~HoldsDownloadFlag(r)) /\ fileUseable)
              => DownloadShouldRun(downloadRunning, fileUseable)

\* An upload job failed and finished, and a later upload request took the
\* gate and launched its own job.
C6_Witness ==
    /\ rev = "rec"
    /\ \E a, b \in Uploads :
          /\ a # b
          /\ req[a].gpc = "done" /\ rec[a].Status = FailedStatus
          /\ rec[a].CompletionTime # ZeroTime
          /\ req[b].shouldRun /\ req[b].gpc = "run"

\* Request r evaluates the download gate in this step.
DownloadGateStep(r) ==
    /\ req'[r].op = "download"
    /\ \/ rev = "main" /\ req[r].pc = "idle" /\ req'[r].pc # "idle"
       \/ rev = "rec" /\ req[r].pc = "gate" /\ req'[r].pc # "gate"

\* A download request that was refused by the gate has no goroutine and its
\* record is as created.
C7_NoLaunch ==
    \A r \in Downloads :
        (Arrived(r) /\ req[r].pc # "gate" /\ ~req[r].shouldRun) =>
            /\ req[r].gpc = "none"
            /\ req[r].pc # "launch"
            /\ rec[r].Status = RequestedStatus
            /\ rec[r].CompletionTime = ZeroTime

\* A gate evaluation with the file absent and no download running refuses
\* and changes neither the flag nor the barrier; with the file present and
\* no download running it lets the request through.
C7_GateStep ==
    \A r \in Reqs :
        DownloadGateStep(r) =>
            /\ (~fileExists /\ ~downloadRunning) =>
                  /\ ~req'[r].shouldRun
                  /\ downloadRunning' = FALSE
                  /\ downloadWait' = downloadWait
            /\ (fileExists /\ ~downloadRunning) => req'[r].shouldRun

\* C7: a download request handled while the input path list file is absent
\* and no download is running starts no goroutine and no subprocess, leaves
\* downloadRunning false, and its record stays requested for ever; a later
\* download request that finds the file present launches (both revisions).
C7_AbsentFile == []C7_NoLaunch /\ [][C7_GateStep]_vars

\* The first download request found the file absent and returned; the file
\* appeared, and the second download request launched and completed.
C7_Witness ==
    /\ 1 \in Downloads /\ 2 \in Downloads
    /\ ~req[1].shouldRun /\ req[1].pc = "returned"
    /\ rec[1].Status = RequestedStatus
    /\ req[2].shouldRun /\ req[2].gpc = "done"
    /\ rec[2].Status = CompletedStatus
    /\ ~downloadRunning

\* C8: in src/main.go a request that carries the non-blocking parameter, with
\* any value including the empty one, never waits on the barrier.
C8_PresenceMeansNonBlocking ==
    rev = "main" =>
        \A r \in Reqs : req[r].query # Absent => req[r].pc # "wait"

\* The copy of request r's record is in its kind's store.
CopyStored(r) ==
    \E i \in 1..Len(StoreOf(req[r].op)) : StoreOf(req[r].op)[i] = rec[r]

\* C9: in src/main.go a request without the non-blocking parameter that
\* itself launched the job has not returned before its job's record is
\* terminal with completionTime set, the copy is in the store, the job has
\* reset the running flag and called Done().
C9_LauncherWaits ==
    rev = "main" =>
        \A r \in Reqs :
            (req[r].query = Absent /\ req[r].shouldRun /\ req[r].pc = "returned") =>
                /\ req[r].gpc = "done"
                /\ Terminal(rec[r].Status)
                /\ rec[r].CompletionTime # ZeroTime
                /\ CopyStored(r)
                /\ req[r].resets = 1

\* A blocking download request and a blocking upload request each launched a
\* job and returned.
C9_Witness ==
    /\ rev = "main"
    /\ \E a \in Downloads, b \in Uploads :
          /\ req[a].query = Absent /\ req[a].shouldRun /\ req[a].pc = "returned"
          /\ req[b].query = Absent /\ req[b].shouldRun /\ req[b].pc = "returned"

\* C10: in src/main.go UploadFiles, of two requests without the non-blocking
\* parameter where A took the gate and B, arriving later, was refused by it
\* while A is the only request that ever took it (so B's gate check fell
\* between A's and the end of A's job): B launches nothing and B has not
\* returned before A's goroutine has called uploadWait.Done().
C10_JoinerWaits ==
    rev = "main" =>
        \A a, b \in Uploads :
            (/\ a < b
             /\ req[a].query = Absent /\ req[b].query = Absent
             /\ req[a].shouldRun /\ ~req[b].shouldRun
             /\ \A c \in Uploads : req[c].shouldRun => c = a) =>
                /\ req[b].gpc = "none"
                /\ req[b].pc = "returned" => req[a].gpc = "done"

\* The last poll answered carries request r's id and a terminal status.
PollSawTerminal(r) ==
    /\ poll.pc = "idle" /\ poll.code = StatusOK
    /\ poll.body.uuid = UUIDString(rec[r].UUID)
    /\ Terminal(poll.body.status)

\* A poll that found request r's record is answered in this step.
PollAnswered(r) == poll.pc = "marshal" /\ poll.found = r /\ poll'.pc = "idle"

\* C11 as stated: in the record-store revision, under fair scheduling, the
\* record behind the id returned to any trigger request, one that the gate
\* refused included, eventually has status completed or failed, which is
\* what a poll on that id must find in order to observe it.
C11_EveryRequestTerminal ==
    \A r \in Reqs : (req[r].pc = "returned") ~> Terminal(rec[r].Status)

\* C11 amended: in the record-store revision, under fair scheduling, the
\* record behind the id returned to a trigger request that launched a job
\* (shouldRun = true) eventually has status completed or failed and keeps a
\* terminal status from then on; every poll answered on that id reports the
\* status the record has at that moment, so the polls on that id eventually
\* observe completed or failed.  The record of a request that the gate
\* refused stays requested, and so do the polls on its id.
C11_LaunchedRequestTerminal ==
    /\ \A r \in Reqs :
          (req[r].pc = "returned" /\ req[r].shouldRun) ~> Terminal(rec[r].Status)
    /\ [][\A r \in Reqs :
             /\ Terminal(rec[r].Status) => Terminal(rec'[r].Status)
             /\ PollAnswered(r) =>
                   /\ poll'.code = StatusOK
                   /\ poll'.body.uuid = UUIDString(rec[r].UUID)
                   /\ poll'.body.status = rec[r].Status]_vars
    /\ [](\A r \in Reqs :
             (req[r].pc = "returned" /\ ~req[r].shouldRun) =>
                 rec[r].Status = RequestedStatus)

\* An upload request was refused while another upload job ran; the job has
\* finished and a poll on the launcher's id has returned a terminal status.
C11_Witness ==
    \E a, b \in Uploads :
        /\ req[a].shouldRun /\ req[a].pc = "returned" /\ req[a].gpc = "done"
        /\ ~req[b].shouldRun /\ req[b].pc = "returned"
        /\ poll.op = "upload" /\ PollSawTerminal(a)

\* C12: in the record-store revision a trigger request without the
\* non-blocking marker that launched a job has not returned (written its
\* response) before its job's goroutine has finished, and one that was
\* refused because a job of its kind held the gate has not returned while
\* that job is still in flight.
C12_RecHandlerWaits ==
    rev = "rec" =>
        \A r \in Reqs :
            (req[r].query = Absent /\ req[r].pc = "returned") =>
                /\ req[r].shouldRun => req[r].gpc = "done"
                /\ (~req[r].shouldRun /\ req[r].op = "upload") =>
                      \A a \in Uploads : a < r => ~HoldsGate(a)

\* The running value of a kind of job.
RunningStatus(op) == IF op = "upload" THEN UploadingStatus ELSE DownloadingStatus

\* C13: in src/main.go and in the record-store revision, while the
\* subprocess of a launched job runs the job's record has the running status
\* of its kind (uploading for an upload, downloading for a download), and no
\* record goes from requested directly to completed or failed.
C13_RunningBeforeSubprocess ==
    /\ [](\A r \in Reqs : req[r].gpc = "run" => rec[r].Status = RunningStatus(req[r].op))
    /\ [][\A r \in Reqs :
             (Arrived(r) /\ rec[r].Status = RequestedStatus) => ~Terminal(rec'[r].Status)]_vars

\* The kind a record of a request on route op is to carry.
KindOf(op) == IF op = "upload" THEN UploadKind ELSE DownloadKind

\* The records the store of a kind holds: copies in src/main.go, the records
\* the stored pointers lead to in the record-store revision.
StoredRecords(op) ==
    {IF rev = "main" THEN StoreOf(op)[i] ELSE rec[StoreOf(op)[i]] :
        i \in 1..Len(StoreOf(op))}

\* C14: in both revisions the record created for a trigger request carries
\* the kind of that request from its creation on (upload for UploadFiles,
\* download for DownloadFiles), every record in the upload store has kind
\* upload and every record in the download store kind download, and a record
\* whose handler has done nothing but create it has status requested.
C14_RecordKind ==
    /\ \A r \in Reqs : Arrived(r) => rec[r].Kind = KindOf(req[r].op)
    /\ \A op \in {"upload", "download"} :
          \A record \in StoredRecords(op) : record.Kind = KindOf(op)
    /\ \A r \in Reqs :
          (Arrived(r) /\ req[r].gpc = "none") => rec[r].Status = RequestedStatus

\* The records (pointers) in the store of a kind that carry the id.
StoredWithId(op, id) ==
    {StoreOf(op)[i] : i \in {j \in 1..Len(StoreOf(op)) :
                                UUIDString(rec[StoreOf(op)[j]].UUID) = id}}

\* C15: in the record-store revision a step of a status poll changes nothing
\* but the poll itself (store contents, records, running flags and barrier
\* counters are as before); a poll whose id no record of that kind's store
\* carries is answered not-found, also when the other kind's store has a
\* record with it; a poll whose id is in the store finds a record of that
\* store with exactly that id and is answered with that record's fields.
C15_PollPureRead ==
    [][(poll' # poll) =>
          /\ UNCHANGED <<rev, fileExists, req, rec, uploadRunning, downloadRunning,
                         uploadWait, downloadWait, uploadRecords, downloadRecords>>
          /\ poll.pc = "idle" =>
                /\ poll'.op \in {"upload", "download"}
                /\ IF StoredWithId(poll'.op, poll'.id) = {}
                   THEN /\ poll'.pc = "idle"
                        /\ poll'.code = StatusNotFound
                        /\ poll'.found = NilPointer
                   ELSE /\ poll'.pc = "marshal"
                        /\ poll'.found \in StoredWithId(poll'.op, poll'.id)
          /\ poll.pc = "marshal" =>
                /\ poll'.pc = "idle" /\ poll'.op = poll.op /\ poll'.id = poll.id
                /\ poll'.code = StatusOK
                /\ poll'.body.uuid = poll.id
                /\ poll'.body.status = rec[poll.found].Status
                /\ poll'.body.completion_time = rec[poll.found].CompletionTime
                /\ poll'.body.start_time = rec[poll.found].StartTime
                /\ poll'.body.kind = rec[poll.found].Kind]_vars

\* A poll on the download route with the id of a record that is only in the
\* upload store has been answered not-found.
C15_Witness ==
    /\ poll.pc = "idle" /\ poll.op = "download" /\ poll.code = StatusNotFound
    /\ StoredWithId("upload", poll.id) # {}
    /\ downloadRecords # <<>>

\* The contexts that hold mutex m.
Holders(m) ==
    {<<"handler", r>> : r \in {q \in Reqs : m \in req[q].held}}
    \cup {<<"runner", r>> : r \in {q \in Reqs : m \in req[q].gheld}}
    \cup {<<"poller", 0>> : x \in {y \in {0} : m \in poll.held}}

\* C16: in the record-store revision no handler, goroutine or poll ever has
\* two mutexes locked at once; a mutex is locked by one context at a time;
\* and a context that has a mutex locked can always take its next step, which
\* unlocks it, so no context waits for a mutex for ever.
C16_OneLockAtATime ==
    /\ \A r \in Reqs :
          /\ Cardinality(req[r].held) <= 1
          /\ Cardinality(req[r].gheld) <= 1
          /\ req[r].held # {} => ENABLED L_Handler(r)
          /\ req[r].gheld # {} => ENABLED L_Runner(r)
    /\ Cardinality(poll.held) <= 1
    /\ poll.held # {} => ENABLED L_Poller
    /\ \A m \in Mutexes : Cardinality(Holders(m)) <= 1

\* A poll has locked a record's mutex while that record's goroutine is about
\* to lock it for SetCompletionTime, and another request's handler has the
\* upload gate locked.
C16_Witness ==
    \E r, q \in Reqs :
        /\ poll.held = {RecordMutex(r)}
        /\ req[r].gpc = "defer" /\ req[r].gheld = {}
        /\ req[q].held = {UploadRunningMutex}

\* The store of request r's kind holds a record with r's id.
RecordStored(r) ==
    \E i \in 1..Len(StoreOf(req[r].op)) : StoreOf(req[r].op)[i].UUID = rec[r].UUID

\* C17: in src/main.go the record of every trigger request whose handler has
\* returned is in its kind's record store, whether or not the request
\* launched a job and whether or not it blocked.
C17_MainRecordStoredOnReturn ==
    rev = "main" =>
        \A r \in Reqs : req[r].pc = "returned" => RecordStored(r)

\* The gate refused request r: it has been evaluated and yielded
\* shouldRun = false.
Refused(r) == req[r].pc \in {"respond", "returned"} /\ ~req[r].shouldRun

\* A refused request has no goroutine and its record is as it was created.
C18_RefusedUntouched ==
    rev = "rec" =>
        \A r \in Reqs :
            Refused(r) =>
                /\ req[r].gpc = "none"
                /\ rec[r].Status = RequestedStatus
                /\ rec[r].CompletionTime = ZeroTime
                /\ rec[r].StartTime = Now

\* A step that changes the record of an arrived request is a step of the
\* goroutine launched for that request.
C18_OwnRunnerWrites ==
    rev = "rec" =>
        \A r \in Reqs :
            (Arrived(r) /\ rec'[r] # rec[r]) =>
                /\ req[r].shouldRun
                /\ req[r].gpc \notin {"none", "done"}
                /\ req'[r].gpc # req[r].gpc
                /\ \A q \in Reqs \ {r} : rec'[q] = rec[q]

\* C18: in the record-store revision the record of a request that did not
\* launch a job (another job held the gate, or the download precondition was
\* not met) is never mutated after creation: in every later state its status
\* is requested and its completionTime unset, whatever other jobs of that
\* kind do; only the goroutine launched for a record ever writes that record.
C18_RefusedNeverMutated == []C18_RefusedUntouched /\ [][C18_OwnRunnerWrites]_vars

\* An upload request was refused while another upload job ran; that job has
\* completed and finished its cleanup, and the refused request's record is
\* still requested.
C18_Witness ==
    /\ rev = "rec"
    /\ \E a, b \in Uploads :
          /\ req[a].gpc = "done" /\ rec[a].Status = CompletedStatus
          /\ rec[a].CompletionTime # ZeroTime
          /\ Refused(b) /\ req[b].pc = "returned"
          /\ rec[b].Status = RequestedStatus

\* C19: in the oldest revision every goroutine that has finished, on the
\* success path or on a failure path (log file open failure, subprocess
\* error), has reset the running flag of its kind; so uploadRunning is true
\* only while an upload job is in flight and a later upload request can
\* launch once the job has finished.
C19_OldFlagResetOnEveryPath ==
    rev = "old" =>
        /\ \A r \in Reqs : req[r].gpc = "done" => req[r].resets = 1
        /\ uploadRunning =>
              \E r \in Uploads : req[r].shouldRun /\ req[r].gpc # "done"

\* C20: in the oldest revision a download request whose gate evaluation
\* yields shouldRun = false leaves downloadRunning as it was; a request made
\* while no download is running and the file is absent leaves it false.
C20_OldRefusedGateKeepsFlag ==
    [][rev = "old" =>
         \A r \in Reqs :
             (req[r].pc = "idle" /\ req'[r].op = "download" /\ ~req'[r].shouldRun) =>
                 /\ downloadRunning' = downloadRunning
                 /\ (~downloadRunning /\ ~fileExists) => ~downloadRunning']_vars

\* The goroutines of one kind that were launched and have not called Done().
Undone(op) == {r \in Reqs : req[r].op = op /\ req[r].gpc \notin {"none", "done"}}

\* C21: in src/main.go, under fair scheduling and with every subprocess
\* terminating, every request that blocks in Wait() eventually returns from
\* its handler; the barrier counter of a kind is the number of launched
\* goroutines of that kind that have not called Done() (one Add per launch,
\* one Done per goroutine on every path), and it is never negative.
C21_BlockingRequestReturns ==
    /\ \A r \in Reqs : (req[r].pc = "wait") ~> (req[r].pc = "returned")
    /\ [](rev = "main" =>
            /\ uploadWait = Cardinality(Undone("upload"))
            /\ downloadWait = Cardinality(Undone("download"))
            /\ uploadWait >= 0 /\ downloadWait >= 0)

\* A call of the status handler of one kind reads the kind's slice in this
\* step.
ReadsSlice(op) == rev = "main" /\ poll.pc = "idle" /\ poll' # poll /\ poll'.op = op

\* C22: in src/main.go the status handlers never read a.downloadRecords /
\* a.uploadRecords while a goroutine's deferred function is inside the
\* critical section that appends to the same slice.
C22_ReadExcludesAppend ==
    [][\A op \in {"download", "upload"} : ReadsSlice(op) => ~Appending(op)]_vars

\* Request r's record is serialized in this step: MarshalAndWrite in r's own
\* handler, or in a poll that found the record.
SerializedByHandler(r) == req[r].pc = "respond" /\ req'[r].pc = "returned"
SerializedByPoll(r) == poll.pc = "marshal" /\ poll.found = r /\ poll'.pc = "idle"

\* C23: in the record-store revision, with every Lock() a step of its own, a
\* record's mutex is locked by at most one context at a time; every step
\* that changes the Status or CompletionTime of a record after its creation
\* is taken by the record's goroutine with the record's mutex locked; and
\* every serialization of the record is taken with that mutex locked, so no
\* serialization overlaps a field update of the same record.
C23_FieldsUnderRecordMutex ==
    /\ [](\A r \in Reqs : Cardinality(Holders(RecordMutex(r))) <= 1)
    /\ [][\A r \in Reqs :
             /\ (Arrived(r) /\ (rec'[r].Status # rec[r].Status
                                \/ rec'[r].CompletionTime # rec[r].CompletionTime)) =>
                    req[r].gheld = {RecordMutex(r)}
             /\ SerializedByHandler(r) => req[r].held = {RecordMutex(r)}
             /\ SerializedByPoll(r) => poll.held = {RecordMutex(r)}]_vars

\* A handler is serializing its record, with the record's mutex locked, while
\* the record's goroutine is about to lock it for SetStatus; the record of
\* another request already carries a terminal status and a completion time
\* written under its mutex.
C23_Witness ==
    \E r, q \in Reqs :
        /\ rev = "rec"
        /\ req[r].held = {RecordMutex(r)} /\ req[r].pc = "respond"
        /\ req[r].gpc = "status" /\ req[r].gheld = {}
        /\ Terminal(rec[q].Status) /\ rec[q].CompletionTime # ZeroTime

\* C24 as stated: in UploadFiles of src/main.go and of the record-store
\* revision, uploadRunning is true only while some upload request has taken
\* the gate and its job has not yet reset the flag, and the upload barrier
\* counter is always 0 or 1.
C24_UploadFlagOwnedCounterAtMostOne ==
    /\ uploadRunning => \E r \in Uploads : HoldsGate(r)
    /\ uploadWait \in {0, 1}

\* C24 amended: uploadRunning is true exactly while some upload request has
\* taken the gate and its job has not yet reset the flag, and that request
\* is about to launch its goroutine or its goroutine is live, so the flag
\* never stays true with no job left to reset it.  The upload barrier counter
\* is the number of upload goroutines launched that have not called Done():
\* at most one of them has not yet reset the flag, the others are between
\* their reset and their Done(), so the counter can exceed 1.
C24_UploadFlagOwned ==
    /\ uploadRunning <=> \E r \in Uploads : HoldsGate(r)
    /\ \A r \in Uploads : HoldsGate(r) => (req[r].pc = "launch" \/ RunnerLive(r))
    /\ uploadWait = Cardinality({r \in Uploads : RunnerLive(r)})
    /\ uploadWait <= 1 + Cardinality({r \in Uploads : req[r].gpc = "signal"})

\* The first upload job has reset the flag and not yet called Done(); the
\* second request has taken the gate and launched its job: the flag is true
\* again and the counter is 2.
C24_Witness ==
    \E a, b \in Uploads :
        /\ req[a].gpc = "signal"
        /\ HoldsGate(b) /\ RunnerLive(b)
        /\ uploadRunning
        /\ uploadWait = 2

\* The running flag of a kind.
RunningOf(op) == IF op = "upload" THEN uploadRunning ELSE downloadRunning

\* C25: in the record-store revision every launched job ends in this order:
\* the terminal status is written, then completionTime (once, over the zero
\* value), then the kind's running flag is reset, then the barrier is
\* decremented, each in a step of its own that changes nothing else of the
\* four; so a job that has reset the flag has a record with a terminal
\* status and completionTime set, and completionTime is written only by the
\* one SetCompletionTime of the record's own job.
C25_CleanupOrder ==
    /\ [](\A r \in Reqs :
            /\ req[r].gpc \in {"release", "signal", "done"} =>
                  Terminal(rec[r].Status) /\ rec[r].CompletionTime # ZeroTime
            /\ req[r].gpc \in {"signal", "done"} <=> req[r].resets = 1
            /\ req[r].resets <= 1
            /\ req[r].gpc \notin {"release", "signal", "done"} =>
                  rec[r].CompletionTime = ZeroTime)
    /\ [][\A r \in Reqs :
             /\ (req'[r].gpc = "defer" /\ req[r].gpc # "defer") =>
                   /\ ~Terminal(rec[r].Status) /\ Terminal(rec'[r].Status)
                   /\ rec'[r].CompletionTime = ZeroTime
             /\ (req[r].gpc = "defer" /\ req'[r].gpc # "defer") =>
                   /\ req'[r].gpc = "release"
                   /\ rec'[r] = [rec[r] EXCEPT !.CompletionTime = Now]
                   /\ RunningOf(req[r].op)' = RunningOf(req[r].op)
                   /\ WaitOf(req[r].op)' = WaitOf(req[r].op)
             /\ (req[r].gpc = "release" /\ req'[r].gpc # "release") =>
                   /\ req'[r].gpc = "signal"
                   /\ ~RunningOf(req[r].op)'
                   /\ rec'[r] = rec[r]
                   /\ WaitOf(req[r].op)' = WaitOf(req[r].op)
             /\ (req[r].gpc = "signal" /\ req'[r].gpc # "signal") =>
                   /\ req'[r].gpc = "done"
                   /\ WaitOf(req[r].op)' = WaitOf(req[r].op) - 1
                   /\ rec'[r] = rec[r]
             /\ rec'[r].CompletionTime # rec[r].CompletionTime => req[r].gpc = "defer"
             /\ req[r].gpc = "done" => rec'[r] = rec[r]]_vars

\* A download job that failed and an upload job that completed have both
\* stamped their records, reset their flags and called Done().
C25_Witness ==
    \E a \in Downloads, b \in Uploads :
        /\ rev = "rec"
        /\ req[a].gpc = "done" /\ rec[a].Status = FailedStatus
        /\ req[b].gpc = "done" /\ rec[b].Status = CompletedStatus
        /\ ~downloadRunning /\ ~uploadRunning
        /\ downloadWait = 0 /\ uploadWait = 0

====
